---- MODULE Spec2Model ----
(***************************************************************************)
(* Model of the seven-layer resume OCR pipeline of Backend/ocr:            *)
(*   advanced_resume_ocr.py  the orchestrator and its three entry points   *)
(*   section_identifier.py   layer 3                                       *)
(*   content_validator.py    layer 4                                       *)
(*   template_mapper.py      layer 6                                       *)
(*   post_processor.py       layer 7                                       *)
(*                                                                         *)
(* Texts.  A text is a record [words, comma, periods]: the set of its      *)
(* lower-case words, whether it contains a list separator, and the number  *)
(* of '.' characters in it.  The words come from a vocabulary chosen so    *)
(* that no keyword of any table of the source is a proper substring of a   *)
(* vocabulary word or spans two of them: on these texts Python's           *)
(* `kw in text_lower` is `kw \in text.words`, and a pattern                *)
(* r'\b(a|b|c)\b' matches exactly when one of a, b, c is a word of the     *)
(* text.  Every modelled text is shorter than 100 characters.              *)
(*                                                                         *)
(* Confidences are the exact rationals the code computes, kept as          *)
(* [num, den] in half points (2*score over 2*max_score); every score and   *)
(* maximum of the code is a multiple of 0.5 and every threshold a literal, *)
(* so the float comparisons of the code and the rational ones agree.       *)
(***************************************************************************)
EXTENDS Integers, Sequences, FiniteSets, TLC

VARIABLES
    nlp,          \* ContentValidator.nlp / SectionIdentifier.nlp: is spaCy loaded
    pc,           \* where the orchestrator call is: "idle", "pdf_load",
                  \* "docx_load", "layer1" .. "layer7", "returned", "escaped"
    entry,        \* the entry point called: "image", "pdf", "docx"
    doc,          \* the document handed to the call
    layout_info,          \* locals of process_resume, <<>> while unassigned
    ocr_results,
    identified_sections,
    validated_sections,
    header_info,
    mapped_data,
    result,       \* what the call returned, <<>> until it returns
    ran,          \* the stages started so far, in the order they started
    failed,       \* the stage or loading step that raised, or "none"
    v_pc,         \* validator harness: "idle", "in", "once", "twice"
    v_in,         \* sections handed to validate_sections
    v_out,        \* what the last validate_sections call returned
    v_prev,       \* what the call before it returned
    v_moved,      \* moved_content of the last call
    v_removed,    \* removed_content of the last call
    l_pc,         \* layout harness: "idle", "page", "layout", "ocr", "identified"
    l_image,      \* the page handed to analyze_layout
    l_layout,     \* what analyze_layout returned
    l_ocr,        \* what perform_multipass_ocr returned
    l_sections,   \* what identify_sections returned
    n_pc,         \* name harness: "idle", "header", "named"
    n_in,         \* the header handed to _extract_name
    n_out,        \* what _extract_name returned
    m_pc,         \* mapper harness: "idle", "extracted", "mapped"
    m_in,         \* the extracted_data handed to map_to_template
    m_out,        \* what map_to_template returned
    c_pc,         \* capability harness: "idle", "start", "imported",
                  \* "constructed", "matched", "raised"
    c_installed,  \* the optional packages that are installed
    c_self,       \* SectionIdentifier's model and nlp once it is constructed
    c_header,     \* the heading handed to _match_header_to_section
    c_semantic,   \* what technique 3 finds for the heading, "None" if nothing
    c_out,        \* what the call returned, or the exception that was raised
    t_class,      \* thread harness: the class two threads construct, "" if idle
    t_pc,         \* each thread's position in __init__
    t_model,      \* the class attribute holding the model: a handle, 0 if None
    t_loaded,     \* the class attribute _model_loaded / _models_loaded
    t_loads,      \* how many models SentenceTransformer(...) has built
    t_new,        \* each thread's freshly built model, 0 if none
    t_handle,     \* the model each thread uses, 0 if None
    f_pc,         \* function harness: "idle", "in", "out"
    f_in,         \* the arguments of the function applied
    f_out,        \* what the function returned
    g_pc,         \* model cache harness: "idle" or "serving"
    g_prewarmed,  \* model_cache._models_prewarmed
    g_instance,   \* optimized_section_mapper._mapper_instance is not None
    g_attrs,      \* the class attributes of the cached classes
    g_history,    \* the calls made so far
    g_status      \* what the last get_model_status() returned

locals ==
    <<layout_info, ocr_results, identified_sections, validated_sections,
      header_info, mapped_data>>

pvars == <<pc, entry, doc, locals, result, ran, failed>>

vvars == <<v_pc, v_in, v_out, v_prev, v_moved, v_removed>>

lvars == <<l_pc, l_image, l_layout, l_ocr, l_sections>>

\* The variables of the harnesses that apply single functions
nvars == <<n_pc, n_in, n_out>>

mvars == <<m_pc, m_in, m_out>>

cvars == <<c_pc, c_installed, c_self, c_header, c_semantic, c_out>>

tvars == <<t_class, t_pc, t_model, t_loaded, t_loads, t_new, t_handle>>

fvars == <<f_pc, f_in, f_out>>

gvars == <<g_pc, g_prewarmed, g_instance, g_attrs, g_history, g_status>>

hvars == <<lvars, nvars, mvars, cvars, tvars, fvars, gvars>>

vars == <<nlp, pvars, vvars, hvars>>

\* No orchestrator call is under way
PipelineIdle ==
    /\ pc = "idle"
    /\ entry = "none"
    /\ doc = <<>>
    /\ layout_info = <<>>
    /\ ocr_results = <<>>
    /\ identified_sections = <<>>
    /\ validated_sections = <<>>
    /\ header_info = <<>>
    /\ mapped_data = <<>>
    /\ result = <<>>
    /\ ran = <<>>
    /\ failed = "none"

\* The validator harness is not in use
ValidatorIdle ==
    /\ v_pc = "idle"
    /\ v_in = <<>>
    /\ v_out = <<>>
    /\ v_prev = <<>>
    /\ v_moved = <<>>
    /\ v_removed = <<>>

\* The layout harness is not in use
LayoutIdle ==
    /\ l_pc = "idle"
    /\ l_image = <<>>
    /\ l_layout = <<>>
    /\ l_ocr = <<>>
    /\ l_sections = <<>>

\* The name harness is not in use
NameIdle ==
    /\ n_pc = "idle"
    /\ n_in = <<>>
    /\ n_out = <<>>

\* The mapper harness is not in use
MapperIdle ==
    /\ m_pc = "idle"
    /\ m_in = <<>>
    /\ m_out = <<>>

\* The capability harness is not in use
CapabilitiesIdle ==
    /\ c_pc = "idle"
    /\ c_installed = {}
    /\ c_self = <<>>
    /\ c_header = ""
    /\ c_semantic = "None"
    /\ c_out = <<>>

\* The thread harness is not in use
ThreadsIdle ==
    /\ t_class = ""
    /\ t_pc = <<>>
    /\ t_model = 0
    /\ t_loaded = FALSE
    /\ t_loads = 0
    /\ t_new = <<>>
    /\ t_handle = <<>>

\* The function harness is not in use
FunctionsIdle ==
    /\ f_pc = "idle"
    /\ f_in = <<>>
    /\ f_out = <<>>

\* The model cache harness is not in use
ModelCacheIdle ==
    /\ g_pc = "idle"
    /\ g_prewarmed = FALSE
    /\ g_instance = FALSE
    /\ g_attrs = <<>>
    /\ g_history = <<>>
    /\ g_status = <<>>

HarnessesIdle ==
    /\ LayoutIdle /\ NameIdle /\ MapperIdle /\ CapabilitiesIdle /\ ThreadsIdle
    /\ FunctionsIdle /\ ModelCacheIdle

(***************************************************************************)
(* Generic helpers                                                         *)
(***************************************************************************)
Min(a, b) == IF a <= b THEN a ELSE b

Range(s) == {s[i] : i \in 1..Len(s)}

\* A list built element by element: the function over 1..n as a sequence,
\* the empty list when n = 0
AsList(f) == IF DOMAIN f = {} THEN <<>> ELSE f

\* Python dicts keep insertion order: a dict of lists is a sequence of
\* [name, blocks] entries with distinct names.
DictKeys(d) == {d[i].name : i \in 1..Len(d)}

DictGet(d, k) == (CHOOSE i \in 1..Len(d) : d[i].name = k)

\* `if k not in d: d[k] = []`
DictEnsure(d, k) ==
    IF k \in DictKeys(d) THEN d ELSE Append(d, [name |-> k, blocks |-> <<>>])

\* `d[k].append(b)` for a key that is present
DictAppend(d, k, b) ==
    [i \in 1..Len(d) |->
        IF d[i].name = k
        THEN [name |-> k, blocks |-> Append(d[i].blocks, b)]
        ELSE d[i]]

(***************************************************************************)
(* Texts                                                                   *)
(***************************************************************************)
EmptyText == [words |-> {}, comma |-> FALSE, periods |-> 0]

Words(ws) == [words |-> ws, comma |-> FALSE, periods |-> 0]

List(ws) == [words |-> ws, comma |-> TRUE, periods |-> 0]

\* `not text.strip()`
IsBlank(text) == text.words = {} /\ ~text.comma /\ text.periods = 0

\* `kw in text_lower`
Contains(text, kw) == kw \in text.words

\* re.search(r'\b(a|b|...)\b', text_lower), the pattern given by its alternatives
Matches(text, alternatives) == text.words \cap alternatives # {}

\* What the spaCy model tags in a text: the entity labels found, by word.
OrgWords == {"google"}

DateWords == {"2020"}

EntityCount(text, label) ==
    IF label = "ORG" THEN Cardinality(text.words \cap OrgWords)
    ELSE IF label = "DATE" THEN Cardinality(text.words \cap DateWords)
    ELSE 0

(***************************************************************************)
(* Layer 4: content_validator.py                                           *)
(***************************************************************************)
CONTENT_SIGNATURES ==
    [EMPLOYMENT |->
        [required_patterns |->
            << {"managed", "developed", "led", "created", "implemented",
                "designed", "built", "responsible"},
               {"company", "corporation", "team", "project", "product"} >>,
         positive_keywords |->
            {"managed", "developed", "led", "created", "implemented", "designed",
             "built", "responsible", "achieved", "increased", "improved", "reduced",
             "collaborated", "coordinated", "delivered", "established", "maintained"},
         negative_keywords |->
            {"bachelor", "master", "phd", "degree", "university", "college",
             "gpa", "graduated", "coursework"},
         entity_types |-> {"ORG", "DATE"},
         min_entities |-> {<<"ORG", 1>>},
         format |-> "none",
         strong_negative_weight |-> 1],
     EDUCATION |->
        [required_patterns |->
            << {"bachelor", "master", "phd", "b.s.", "m.s.", "b.a.", "m.a.",
                "b.tech", "m.tech", "degree"},
               {"university", "college", "institute", "school"} >>,
         positive_keywords |->
            {"bachelor", "master", "phd", "doctorate", "degree", "university",
             "college", "graduated", "gpa", "honors", "cum laude", "summa", "magna",
             "diploma", "certificate", "coursework", "thesis", "dissertation",
             "academic", "student", "scholar", "major", "minor", "concentration",
             "education", "school", "institute"},
         negative_keywords |->
            {"managed team", "developed product", "implemented solution",
             "led project", "company", "corporation", "responsibilities", "duties",
             "position", "role", "achieved", "increased revenue",
             "improved performance", "reduced cost", "collaborated with",
             "reported to", "supervised"},
         entity_types |-> {"ORG", "DATE"},
         min_entities |-> {},
         format |-> "none",
         strong_negative_weight |-> 5],
     SKILLS |->
        [required_patterns |-> << >>,
         positive_keywords |->
            {"python", "java", "javascript", "c++", "sql", "html", "css",
             "react", "angular", "node", "aws", "azure", "docker", "kubernetes",
             "git", "linux", "windows", "api", "rest", "graphql", "mongodb",
             "postgresql", "mysql", "agile", "scrum", "ci/cd"},
         negative_keywords |->
            {"bachelor", "master", "university", "graduated", "gpa",
             "managed", "developed", "led", "responsibilities"},
         entity_types |-> {},
         min_entities |-> {},
         format |-> "list",
         strong_negative_weight |-> 1],
     SUMMARY |->
        [required_patterns |-> << >>,
         positive_keywords |->
            {"years of experience", "professional", "expertise", "specialized",
             "passionate", "dedicated", "seeking", "objective", "goal"},
         negative_keywords |-> {},
         entity_types |-> {},
         min_entities |-> {},
         format |-> "paragraph",
         strong_negative_weight |-> 1],
     PROJECTS |->
        [required_patterns |->
            << {"project", "developed", "built", "created", "implemented"} >>,
         positive_keywords |->
            {"project", "developed", "built", "created", "implemented",
             "application", "website", "system", "tool", "platform"},
         negative_keywords |-> {"bachelor", "master", "university", "gpa"},
         entity_types |-> {},
         min_entities |-> {},
         format |-> "none",
         strong_negative_weight |-> 1],
     CERTIFICATIONS |->
        [required_patterns |->
            << {"certified", "certification", "license", "credential"} >>,
         positive_keywords |->
            {"certified", "certification", "license", "credential",
             "aws", "microsoft", "cisco", "google", "oracle"},
         negative_keywords |-> {},
         entity_types |-> {"ORG", "DATE"},
         min_entities |-> {},
         format |-> "none",
         strong_negative_weight |-> 1]]

\* CONTENT_SIGNATURES.keys(), in the order the dict literal lists them
SignatureOrder ==
    <<"EMPLOYMENT", "EDUCATION", "SKILLS", "SUMMARY", "PROJECTS", "CERTIFICATIONS">>

\* Thresholds, in percent of max_score
ValidPct == 40

KeepPct == 50

RelocatePct == 50

DropPct == 30

\* confidence >= pct/100 and confidence < pct/100, for c = [num, den], den > 0
AtLeast(c, pct) == 100 * c.num >= pct * c.den

Below(c, pct) == 100 * c.num < pct * c.den

\* a > b for two confidences
Greater(a, b) == a.num * b.den > b.num * a.den

KeywordHits(text, keywords) == Cardinality({kw \in keywords : Contains(text, kw)})

\* The five checks of _validate_content, each as [score, max, hit], in half points.
CheckPatterns(text, sig) ==
    IF Len(sig.required_patterns) = 0 THEN [score |-> 0, max |-> 0, hit |-> FALSE]
    ELSE LET found == \E i \in 1..Len(sig.required_patterns) :
                          Matches(text, sig.required_patterns[i])
         IN  [score |-> IF found THEN 4 ELSE 0, max |-> 4, hit |-> found]

CheckPositive(text, sig) ==
    IF sig.positive_keywords = {} THEN [score |-> 0, max |-> 0, hit |-> 0]
    ELSE LET matches == KeywordHits(text, sig.positive_keywords)
         IN  [score |-> IF matches > 0 THEN Min(6, matches) ELSE 0,
              max |-> 6, hit |-> matches]

CheckNegative(text, sig) ==
    IF sig.negative_keywords = {} THEN [score |-> 0, max |-> 0, hit |-> 0]
    ELSE LET w == sig.strong_negative_weight
             neg_matches == KeywordHits(text, sig.negative_keywords)
         IN  [score |-> IF neg_matches = 0 THEN 4 * w ELSE 0 - 2 * neg_matches * w,
              max |-> 4 * w, hit |-> neg_matches]

CheckFormat(text, sig) ==
    IF sig.format = "none" THEN [score |-> 0, max |-> 0, hit |-> FALSE]
    ELSE LET is_list == text.comma
             is_paragraph == text.periods + 1 > 2
             ok == \/ sig.format = "list" /\ is_list
                   \/ sig.format = "paragraph" /\ is_paragraph
         IN  [score |-> IF ok THEN 2 ELSE 0, max |-> 2, hit |-> ok]

CheckEntities(text, sig, hasNlp) ==
    IF ~(hasNlp /\ sig.entity_types # {}) THEN [score |-> 0, max |-> 0, hit |-> FALSE]
    ELSE LET has_required == \A r \in sig.min_entities :
                                 EntityCount(text, r[1]) >= r[2]
         IN  [score |-> IF has_required THEN 4 ELSE 0, max |-> 4, hit |-> has_required]

\* reason: the list of reasons, by what each check found
NoReason == [pattern |-> FALSE, positive |-> 0, negative |-> 0,
             format |-> FALSE, entities |-> FALSE]

\* _validate_content(text, section_type): [is_valid, confidence, reason]
validate_content(text, section_type, hasNlp) ==
    IF section_type \notin DOMAIN CONTENT_SIGNATURES
    THEN [is_valid |-> TRUE, confidence |-> [num |-> 1, den |-> 1], reason |-> NoReason]
    ELSE LET sig == CONTENT_SIGNATURES[section_type]
             c1 == CheckPatterns(text, sig)
             c2 == CheckPositive(text, sig)
             c3 == CheckNegative(text, sig)
             c4 == CheckFormat(text, sig)
             c5 == CheckEntities(text, sig, hasNlp)
             score == c1.score + c2.score + c3.score + c4.score + c5.score
             max_score == c1.max + c2.max + c3.max + c4.max + c5.max
             confidence == IF max_score > 0 THEN [num |-> score, den |-> max_score]
                                            ELSE [num |-> 1, den |-> 1]
         IN  [is_valid |-> AtLeast(confidence, ValidPct),
              confidence |-> confidence,
              reason |-> [pattern |-> c1.hit, positive |-> c2.hit,
                          negative |-> IF c3.hit > 0 THEN c3.hit ELSE 0,
                          format |-> c4.hit, entities |-> c5.hit]]

\* The loop of _find_correct_section: [best_section, best_confidence] after
\* the first k signature types.
RECURSIVE BestSection(_, _, _)
BestSection(text, k, hasNlp) ==
    IF k = 0 THEN [best_section |-> "None", best_confidence |-> [num |-> 0, den |-> 1]]
    ELSE LET prev == BestSection(text, k - 1, hasNlp)
             c == validate_content(text, SignatureOrder[k], hasNlp).confidence
         IN  IF Greater(c, prev.best_confidence)
             THEN [best_section |-> SignatureOrder[k], best_confidence |-> c]
             ELSE prev

\* _find_correct_section without its confidence floor
find_correct_section_no_floor(text, hasNlp) ==
    BestSection(text, Len(SignatureOrder), hasNlp).best_section

\* _find_correct_section(text): a section name, or "None"
find_correct_section(text, hasNlp) ==
    LET best == BestSection(text, Len(SignatureOrder), hasNlp)
    IN  IF AtLeast(best.best_confidence, RelocatePct) THEN best.best_section ELSE "None"


\* A content block as the validator sees it: a dict with 'text' (and, from
\* layer 3, 'y'); id stands for the identity of the dict object.
NoWarning == [flagged |-> FALSE, reason |-> NoReason]

Block(id, text, y) ==
    [type |-> "body", heading |-> "", id |-> id, text |-> text, y |-> y,
     validation_warning |-> NoWarning]

EmptyAcc == [validated |-> <<>>, moved |-> <<>>, removed |-> <<>>]

\* The relocation branch of validate_sections, keeping the block in the
\* section it came from as well
RelocateKeepingSource(acc, section_name, block, correct_section) ==
    [acc EXCEPT
        !.validated = DictAppend(DictAppend(DictEnsure(@, correct_section),
                                            correct_section, block),
                                 section_name, block),
        !.moved = Append(@, [from |-> section_name, to |-> correct_section,
                             id |-> block.id])]

\* validate_sections, lines 177-186: move the block to correct_section
Relocate(acc, section_name, block, correct_section) ==
    [acc EXCEPT
        !.validated = DictAppend(DictEnsure(@, correct_section), correct_section, block),
        !.moved = Append(@, [from |-> section_name, to |-> correct_section,
                             id |-> block.id])]

\* The low-confidence branch of validate_sections without the removal: the
\* block stays, flagged, whatever its confidence
KeepFlagged(acc, section_name, block, r) ==
    [acc EXCEPT !.validated =
        DictAppend(@, section_name,
            [block EXCEPT !.validation_warning = [flagged |-> TRUE, reason |-> r.reason]])]

\* validate_sections, lines 188-200: no better section was found; r is what
\* _validate_content returned for the block in section_name
KeepOrRemove(acc, section_name, block, r) ==
    IF Below(r.confidence, DropPct)
    THEN [acc EXCEPT !.removed = Append(@, [section |-> section_name, id |-> block.id])]
    ELSE [acc EXCEPT !.validated =
            DictAppend(@, section_name,
                [block EXCEPT !.validation_warning =
                    [flagged |-> TRUE, reason |-> r.reason]])]

\* validate_sections, lines 154-200: the body of the loop over one section's
\* blocks, on the accumulators validated_sections, moved_content, removed_content
ValidateBlock(acc, section_name, block, hasNlp) ==
    IF IsBlank(block.text) THEN acc
    ELSE LET r == validate_content(block.text, section_name, hasNlp)
         IN  IF r.is_valid /\ AtLeast(r.confidence, KeepPct)
             THEN [acc EXCEPT !.validated = DictAppend(@, section_name, block)]
             ELSE LET correct_section == find_correct_section(block.text, hasNlp)
                  IN  IF correct_section # "None" /\ correct_section # section_name
                      THEN Relocate(acc, section_name, block, correct_section)
                      ELSE KeepOrRemove(acc, section_name, block, r)

RECURSIVE ValidateBlocks(_, _, _, _, _)
ValidateBlocks(acc, section_name, blocks, k, hasNlp) ==
    IF k = 0 THEN acc
    ELSE ValidateBlock(ValidateBlocks(acc, section_name, blocks, k - 1, hasNlp),
                       section_name, blocks[k], hasNlp)

\* validate_sections, lines 147-200: the loop over sections.items(), first k entries
RECURSIVE ValidateEntries(_, _, _)
ValidateEntries(sections, k, hasNlp) ==
    IF k = 0 THEN EmptyAcc
    ELSE LET acc == ValidateEntries(sections, k - 1, hasNlp)
             e == sections[k]
             opened == [acc EXCEPT !.validated = DictEnsure(@, e.name)]
         IN  ValidateBlocks(opened, e.name, e.blocks, Len(e.blocks), hasNlp)

\* validate_sections(sections): [validated, moved, removed]
validate_sections(sections, hasNlp) == ValidateEntries(sections, Len(sections), hasNlp)

\* `d[k] = blocks` on a dict: the entry of an existing key is replaced where
\* it stands, a new key is added at the end
DictSet(d, k, blocks) ==
    IF \E i \in 1..Len(d) : d[i].name = k
    THEN [i \in 1..Len(d) |-> IF d[i].name = k THEN [name |-> k, blocks |-> blocks]
                                                ELSE d[i]]
    ELSE Append(d, [name |-> k, blocks |-> blocks])

\* filter_mismatched_content, lines 356-373: the loop over one section's
\* blocks, on filtered_sections and filtered_blocks
RECURSIVE FilterBlocks(_, _, _, _, _)
FilterBlocks(filtered_sections, section_name, blocks, k, hasNlp) ==
    IF k = 0 THEN [filtered_sections |-> filtered_sections, filtered_blocks |-> <<>>]
    ELSE LET prev == FilterBlocks(filtered_sections, section_name, blocks, k - 1, hasNlp)
             block == blocks[k]
             r == validate_content(block.text, section_name, hasNlp)
             correct_section == find_correct_section(block.text, hasNlp)
         IN  IF r.is_valid \/ AtLeast(r.confidence, DropPct)
             THEN [prev EXCEPT !.filtered_blocks = Append(@, block)]
             ELSE IF correct_section # "None"
             THEN [prev EXCEPT !.filtered_sections =
                      DictAppend(DictEnsure(@, correct_section), correct_section, block)]
             ELSE prev

\* filter_mismatched_content, lines 353-376: the loop over sections.items(),
\* first k entries
RECURSIVE FilterEntries(_, _, _)
FilterEntries(sections, k, hasNlp) ==
    IF k = 0 THEN <<>>
    ELSE LET e == sections[k]
             done == FilterBlocks(FilterEntries(sections, k - 1, hasNlp), e.name,
                                  e.blocks, Len(e.blocks), hasNlp)
         IN  IF Len(done.filtered_blocks) > 0
             THEN DictSet(done.filtered_sections, e.name, done.filtered_blocks)
             ELSE done.filtered_sections

\* filter_mismatched_content(sections)
filter_mismatched_content(sections, hasNlp) == FilterEntries(sections, Len(sections), hasNlp)

\* check_content_duplication: hash(text[:100]) of the stripped text; the
\* modelled texts are shorter than 100 characters, so the key is the text.
TextKey(text) == text

RECURSIVE DedupEntries(_, _)
DedupEntries(sections, k) ==
    IF k = 0 THEN [seen_texts |-> {}, deduped |-> <<>>]
    ELSE LET prev == DedupEntries(sections, k - 1)
             e == sections[k]
             Unique[i \in 0..Len(e.blocks)] ==
                 IF i = 0 THEN [seen |-> prev.seen_texts, blocks |-> <<>>]
                 ELSE LET u == Unique[i - 1]
                          key == TextKey(e.blocks[i].text)
                      IN  IF key \notin u.seen
                          THEN [seen |-> u.seen \cup {key},
                                blocks |-> Append(u.blocks, e.blocks[i])]
                          ELSE u
             done == Unique[Len(e.blocks)]
         IN  [seen_texts |-> done.seen,
              deduped |-> IF Len(done.blocks) > 0
                          THEN Append(prev.deduped, [name |-> e.name, blocks |-> done.blocks])
                          ELSE prev.deduped]

check_content_duplication(sections) == DedupEntries(sections, Len(sections)).deduped

\* validate_and_fix_sections: validate, then deduplicate
validate_and_fix_sections(sections, hasNlp) ==
    check_content_duplication(validate_sections(sections, hasNlp).validated)

(***************************************************************************)
(* Layer 3: section_identifier.py                                          *)
(***************************************************************************)
\* SECTION_MAPPINGS.items(), in the order of the dict literal
SECTION_MAPPINGS ==
    << [section |-> "EMPLOYMENT", synonyms |->
          {"employment", "employment history", "work experience",
           "professional experience", "work history", "career history", "experience",
           "professional background", "relevant employment", "career experience",
           "work", "jobs", "positions", "professional summary", "work record"}],
       [section |-> "EDUCATION", synonyms |->
          {"education", "educational background", "academic background",
           "academic qualifications", "qualifications", "academics",
           "education background", "schooling", "degrees", "academic history"}],
       [section |-> "SKILLS", synonyms |->
          {"skills", "technical skills", "core competencies", "key skills",
           "professional skills", "areas of expertise", "competencies", "skill set",
           "expertise", "technical competencies", "technologies",
           "technical proficiencies", "core skills"}],
       [section |-> "SUMMARY", synonyms |->
          {"summary", "professional summary", "career summary", "profile",
           "professional profile", "career objective", "objective",
           "executive summary", "career overview", "about me", "about", "overview"}],
       [section |-> "PROJECTS", synonyms |->
          {"projects", "key projects", "project experience", "notable projects",
           "portfolio", "selected projects", "project work"}],
       [section |-> "CERTIFICATIONS", synonyms |->
          {"certifications", "certificates", "professional certifications",
           "licenses", "credentials", "certified", "licensing",
           "professional licenses"}],
       [section |-> "ACHIEVEMENTS", synonyms |->
          {"achievements", "awards", "honors", "recognition", "accomplishments",
           "awards and honors", "distinctions"}],
       [section |-> "LANGUAGES", synonyms |->
          {"languages", "language skills", "language proficiency",
           "linguistic skills"}] >>

\* Heading texts as OCR reads them.  The tables below give, for each, what
\* the string operations of _match_header_to_section compute on it.
HeadingTexts == {"work experience", "projects", "EDUC4TION", "hobbies", ""}

\* header_text.strip().lower() with every character outside [a-z\s] removed
HeaderClean(header_text) ==
    IF header_text = "EDUC4TION" THEN "eduction" ELSE header_text

\* The best fuzz.token_sort_ratio of a cleaned heading over all synonyms, and
\* the section of the first synonym that reaches it
FuzzyBest(header_clean) ==
    CASE header_clean = "eduction" -> [best_match |-> "EDUCATION", best_score |-> 94]
      [] header_clean = "hobbies" -> [best_match |-> "EMPLOYMENT", best_score |-> 55]
      [] header_clean = "company" -> [best_match |-> "SKILLS", best_score |-> 53]
      [] header_clean = "professional summary" ->
             [best_match |-> "EMPLOYMENT", best_score |-> 100]
      [] OTHER -> [best_match |-> "None", best_score |-> 0]

FuzzyAcceptScore == 80

\* keyword_patterns of technique 4: the section of the first entry one of
\* whose keywords is a substring of the cleaned heading
KeywordRule(header_clean) ==
    CASE header_clean = "work experience" -> "EMPLOYMENT"
      [] header_clean = "projects" -> "PROJECTS"
      [] header_clean = "company" -> "EMPLOYMENT"
      [] header_clean = "professional summary" -> "SUMMARY"
      [] OTHER -> "None"

\* technique 1: the first section whose synonyms hold the cleaned heading
ExactMatch(header_clean) ==
    LET hits == {i \in 1..Len(SECTION_MAPPINGS) :
                    header_clean \in SECTION_MAPPINGS[i].synonyms}
    IN  IF hits = {} THEN "None"
        ELSE SECTION_MAPPINGS[CHOOSE i \in hits : \A j \in hits : i <= j].section

\* _match_header_to_section with technique 3 tried before the others
match_header_semantic_first(header_text, semantic) ==
    LET header_clean == HeaderClean(header_text)
        fuzzy == FuzzyBest(header_clean)
    IN  IF header_clean = "" THEN "None"
        ELSE IF semantic # "None" THEN semantic
        ELSE IF ExactMatch(header_clean) # "None" THEN ExactMatch(header_clean)
        ELSE IF fuzzy.best_score > FuzzyAcceptScore THEN fuzzy.best_match
        ELSE KeywordRule(header_clean)

\* _match_header_to_section(header_text): a section name, or "None".
\* semantic is what technique 3 finds: the section whose synonym is most
\* similar to the heading if that similarity exceeds 0.65, "None" if none
\* does, if the encoder raises or if self.model is None
match_header_with_model(header_text, semantic) ==
    LET header_clean == HeaderClean(header_text)
        fuzzy == FuzzyBest(header_clean)
    IN  IF header_clean = "" THEN "None"
        ELSE IF ExactMatch(header_clean) # "None" THEN ExactMatch(header_clean)
        ELSE IF fuzzy.best_score > FuzzyAcceptScore THEN fuzzy.best_match
        ELSE IF semantic # "None" THEN semantic
        ELSE KeywordRule(header_clean)

\* _match_header_to_section(header_text) with self.model = None
match_header_to_section(header_text) == match_header_with_model(header_text, "None")

\* The text of a heading, as the content analysis reads it
HeadingText(header_text) ==
    CASE header_text = "work experience" -> Words({"work", "experience"})
      [] header_text = "projects" -> Words({"projects"})
      [] header_text = "EDUC4TION" -> Words({"educ4tion"})
      [] header_text = "hobbies" -> Words({"hobbies"})
      [] OTHER -> EmptyText

\* Patterns of _classify_content_by_analysis by their single-word
\* alternatives; a pattern that needs a digit, ':' or '-' next to the word
\* matches no modelled text and has none.
strong_education_patterns ==
    << {"bachelor", "master", "phd", "doctorate", "b.s.", "m.s.", "b.a.", "m.a.",
        "b.tech", "m.tech"},
       {"university", "college"},
       {},
       {"cum laude", "magna cum laude", "summa cum laude"},
       {"thesis", "dissertation"},
       {},
       {"academic"} >>

education_keywords ==
    {"graduated", "graduation", "degree", "diploma", "school", "institute",
     "coursework", "honors", "academic", "student", "education"}

strong_employment_patterns ==
    << {"company", "corporation", "inc.", "ltd.", "llc"},
       {}, {}, {}, {},
       {"promoted", "hired", "recruited"},
       {"employee", "employer", "worked at"} >>

employment_verbs ==
    {"managed team", "led team", "supervised", "coordinated team",
     "responsibilities included", "duties included", "reported to",
     "collaborated with", "partnered with"}

tech_keywords ==
    {"python", "java", "javascript", "sql", "aws", "azure", "docker", "react",
     "angular", "node", "api", "database", "cloud", "agile", "c++", "c#", "ruby",
     "php", "swift", "kotlin", "typescript"}

summary_keywords ==
    {"years of experience", "professional", "expertise in", "specialized in",
     "seeking", "passionate about", "dedicated", "experienced", "background in"}

project_keywords ==
    {"project", "built application", "developed application", "created tool",
     "implemented system"}

edu_institutions == {"university", "college", "institute", "school"}

PatternHits(text, patterns) ==
    Cardinality({i \in 1..Len(patterns) : Matches(text, patterns[i])})

EducationShortCircuit == 5

EmploymentShortCircuit == 8

\* scores in the order of the dict literal, which max(scores, key=scores.get)
\* walks: the first section with the highest score wins
ScoreOrder == <<"EDUCATION", "EMPLOYMENT", "SKILLS", "SUMMARY", "PROJECTS">>

\* _classify_content_by_analysis without its two early returns: the section
\* of the highest score, employment indicators counted whatever the
\* education score
classify_content_by_highest_score(text, hasNlp) ==
    LET education == PatternHits(text, strong_education_patterns) * 5
                        + KeywordHits(text, education_keywords) * 2
        employment == PatternHits(text, strong_employment_patterns) * 4
                         + KeywordHits(text, employment_verbs) * 3
        skills == IF text.comma /\ text.words # {}
                  THEN 5 + KeywordHits(text, tech_keywords) * 2 ELSE 0
        summary == KeywordHits(text, summary_keywords) * 3
                      + (IF text.periods + 1 > 2 THEN 2 ELSE 0)
        projects == KeywordHits(text, project_keywords) * 3
        scores == [EDUCATION |-> education, EMPLOYMENT |-> employment,
                   SKILLS |-> skills, SUMMARY |-> summary, PROJECTS |-> projects]
        top == CHOOSE i \in 1..Len(ScoreOrder) :
                  /\ \A j \in 1..Len(ScoreOrder) : scores[ScoreOrder[j]] <= scores[ScoreOrder[i]]
                  /\ \A j \in 1..(i - 1) : scores[ScoreOrder[j]] < scores[ScoreOrder[i]]
    IN  IF scores[ScoreOrder[top]] > 0 THEN ScoreOrder[top] ELSE "None"

\* _classify_content_by_analysis(content): a section name, or "None".  The
\* items of a modelled list are single words or two-word phrases, so a list
\* with an item has short items, and a text starts with a word.
classify_content_by_analysis(text, hasNlp) ==
    LET education == PatternHits(text, strong_education_patterns) * 5
                        + KeywordHits(text, education_keywords) * 2
        employment == IF education < EducationShortCircuit
                      THEN PatternHits(text, strong_employment_patterns) * 4
                              + KeywordHits(text, employment_verbs) * 3
                      ELSE 0
        short_items == text.words # {}
        skills == IF text.comma /\ short_items
                  THEN 5 + KeywordHits(text, tech_keywords) * 2 ELSE 0
        summary == KeywordHits(text, summary_keywords) * 3
                      + (IF text.periods + 1 > 2 THEN 2 ELSE 0)
        projects == KeywordHits(text, project_keywords) * 3
        org_count == EntityCount(text, "ORG")
        date_count == EntityCount(text, "DATE")
        has_edu_institution == \E inst \in edu_institutions : Contains(text, inst)
        edu_boost == IF hasNlp /\ has_edu_institution /\ date_count >= 1 THEN 5 ELSE 0
        emp_boost == IF hasNlp /\ ~(has_edu_institution /\ date_count >= 1)
                        /\ org_count >= 1 /\ date_count >= 1 /\ ~has_edu_institution
                     THEN 3 ELSE 0
        scores == [EDUCATION |-> education + edu_boost,
                   EMPLOYMENT |-> employment + emp_boost,
                   SKILLS |-> skills, SUMMARY |-> summary, PROJECTS |-> projects]
        top == CHOOSE i \in 1..Len(ScoreOrder) :
                  /\ \A j \in 1..Len(ScoreOrder) : scores[ScoreOrder[j]] <= scores[ScoreOrder[i]]
                  /\ \A j \in 1..(i - 1) : scores[ScoreOrder[j]] < scores[ScoreOrder[i]]
    IN  IF education >= EducationShortCircuit THEN "EDUCATION"
        ELSE IF employment >= EmploymentShortCircuit THEN "EMPLOYMENT"
        ELSE IF scores[ScoreOrder[top]] > 0 THEN ScoreOrder[top]
        ELSE "None"

\* all_blocks.sort(key=lambda x: x['y']): a stable insertion sort
RECURSIVE SortByY(_)
SortByY(blocks) ==
    IF Len(blocks) <= 1 THEN blocks
    ELSE LET rest == SortByY(SubSeq(blocks, 1, Len(blocks) - 1))
             b == blocks[Len(blocks)]
             before == {i \in 1..Len(rest) : rest[i].y <= b.y}
             n == Cardinality(before)
         IN  SubSeq(rest, 1, n) \o <<b>> \o SubSeq(rest, n + 1, Len(rest))

\* `if current_section and current_content:` save it under matched_sections
SaveCurrent(st) ==
    IF st.current_section # "None" /\ Len(st.current_content) > 0
    THEN [st EXCEPT !.matched_sections =
            LET d == DictEnsure(@, st.current_section)
            IN  [i \in 1..Len(d) |->
                    IF d[i].name = st.current_section
                    THEN [name |-> d[i].name, blocks |-> d[i].blocks \o st.current_content]
                    ELSE d[i]]]
    ELSE st

\* identify_sections, lines 152-180: a block of type 'header'
IdentifyHeader(st, block, hasNlp) ==
    LET saved == SaveCurrent(st)
        matched_section == match_header_to_section(block.heading)
        classified == classify_content_by_analysis(block.text, hasNlp)
    IN  IF matched_section # "None"
        THEN [saved EXCEPT !.current_section = matched_section, !.current_content = <<>>]
        ELSE IF classified # "None"
        THEN [saved EXCEPT !.current_section = classified, !.current_content = <<>>]
        ELSE IF saved.current_section # "None"
        THEN [saved EXCEPT !.current_content = Append(@, block)]
        ELSE [saved EXCEPT !.unmatched_content = Append(@, block)]

\* identify_sections, lines 182-203: a block of type 'body'
IdentifyBody(st, block, hasNlp) ==
    LET content_classification == classify_content_by_analysis(block.text, hasNlp)
    IN  IF st.current_section # "None"
        THEN IF content_classification # "None"
                /\ content_classification # st.current_section
             THEN [st EXCEPT !.matched_sections =
                      DictAppend(DictEnsure(@, content_classification),
                                 content_classification, block)]
             ELSE [st EXCEPT !.current_content = Append(@, block)]
        ELSE [st EXCEPT !.unmatched_content = Append(@, block)]

RECURSIVE IdentifyLoop(_, _, _)
IdentifyLoop(all_blocks, k, hasNlp) ==
    IF k = 0
    THEN [matched_sections |-> <<>>, unmatched_content |-> <<>>,
          current_section |-> "None", current_content |-> <<>>]
    ELSE LET st == IdentifyLoop(all_blocks, k - 1, hasNlp)
         IN  IF all_blocks[k].type = "header"
             THEN IdentifyHeader(st, all_blocks[k], hasNlp)
             ELSE IdentifyBody(st, all_blocks[k], hasNlp)

\* identify_sections, lines 212-220: file the unmatched blocks by content
RECURSIVE ClassifyUnmatched(_, _, _, _)
ClassifyUnmatched(matched_sections, unmatched_content, k, hasNlp) ==
    IF k = 0 THEN matched_sections
    ELSE LET d == ClassifyUnmatched(matched_sections, unmatched_content, k - 1, hasNlp)
             block == unmatched_content[k]
             classified_section == classify_content_by_analysis(block.text, hasNlp)
         IN  IF classified_section # "None"
             THEN DictAppend(DictEnsure(d, classified_section), classified_section, block)
             ELSE d

\* The entry of all_blocks for an OCR result
HeaderEntry(h) ==
    [type |-> "header", heading |-> h.text, id |-> h.id, text |-> HeadingText(h.text),
     y |-> h.y, validation_warning |-> NoWarning]

BodyEntry(b) ==
    [type |-> "body", heading |-> "", id |-> b.id, text |-> b.text,
     y |-> b.y, validation_warning |-> NoWarning]

\* identify_sections, lines 127-146: headers and bodies combined and sorted
\* by vertical position
all_blocks_by_position(ocr) ==
    LET headers == ocr.section_headers_ocr
        bodies == ocr.body_ocr
    IN  SortByY(AsList([i \in 1..Len(headers) |-> HeaderEntry(headers[i])])
                \o AsList([i \in 1..Len(bodies) |-> BodyEntry(bodies[i])]))

\* identify_sections, lines 148-220: the loop over all_blocks, the save of
\* the last section and the filing of the unmatched blocks
IdentifyBlocks(all_blocks, hasNlp) ==
    LET st == SaveCurrent(IdentifyLoop(all_blocks, Len(all_blocks), hasNlp))
    IN  ClassifyUnmatched(st.matched_sections, st.unmatched_content,
                          Len(st.unmatched_content), hasNlp)

\* identify_sections(ocr_results)
identify_sections(ocr, hasNlp) ==
    IdentifyBlocks(all_blocks_by_position(ocr), hasNlp)

(***************************************************************************)
(* Layer 5: header_extractor.py                                            *)
(***************************************************************************)
\* The header zone as pass 1 of the OCR reads it: nothing, or the sample
\* header of header_extractor.py
JohnDoeHeader ==
    "JOHN DOE\nSenior Software Engineer\njohn.doe@email.com | (555) 123-4567 | linkedin.com/in/johndoe\nSan Francisco, CA"

HeaderTexts == {"", JohnDoeHeader}

\* extract_header_info(header_ocr, layout_info) when the layout analysis
\* found no text block in the header zone: the name is then the first line
\* that is no contact line and looks like a name.  Confidences in percent.
extract_header_info(header_ocr, layout) ==
    IF header_ocr.text = JohnDoeHeader
    THEN [name |-> "John Doe", email |-> "john.doe@email.com",
          phone |-> "(555) 123-4567", linkedin |-> "linkedin.com/in/johndoe",
          github |-> "@email", location |-> "San Francisco, CA",
          title |-> "Senior Software Engineer",
          confidence |-> [name |-> 70, contact |-> 95]]
    ELSE [name |-> "", email |-> "", phone |-> "", linkedin |-> "", github |-> "",
          location |-> "", title |-> "",
          confidence |-> [name |-> 0, contact |-> 30]]

\* Texts of the header zone: lines of the header text and texts of the
\* layout's header blocks
NameLine == "John Doe"

EmailLine == "j.doe@email.com"

TitleLine == "Resume of John Doe"

NameBlock == "JANE ROE JR"

SummaryBlock == "Engineer with ten years of experience"

\* len(text.split())
HeaderWordCount(text) ==
    CASE text = "" -> 0
      [] text \in {EmailLine, "John"} -> 1
      [] text = NameLine -> 2
      [] text = NameBlock -> 3
      [] text = TitleLine -> 4
      [] text = SummaryBlock -> 6

\* _is_contact_info(text): of the texts above only the e-mail address holds
\* '@', a contact word, a URL scheme or a pair of parentheses
is_contact_info(text) == text = EmailLine

\* _looks_like_name(text): 2 to 4 words, each starting with a capital, no digit
looks_like_name(text) == text \in {NameLine, NameBlock}

\* _clean_name(name): whitespace collapsed, a suffix of a name of more than
\* two words dropped, title case
clean_name(name) ==
    CASE name = NameBlock -> "Jane Roe"
      [] name = TitleLine -> "Resume Of John Doe"
      [] name = SummaryBlock -> "Engineer With Ten Years Of Experience"
      [] name = EmailLine -> "J.Doe@Email.Com"
      [] OTHER -> name

\* re.search(self.email_pattern, header_text): the first address of the text
EmailMatch(lines) == SelectSeq(lines, LAMBDA line : line = EmailLine)

\* email.split('@')[0].replace('.', ' ').replace('_', ' ').title()
EmailName(email) == IF email = EmailLine THEN "J Doe" ELSE email

\* sorted(header_blocks, key=lambda b: b.get('height', 0), reverse=True):
\* stable, largest first
RECURSIVE SortByHeight(_)
SortByHeight(blocks) ==
    IF Len(blocks) <= 1 THEN blocks
    ELSE LET rest == SortByHeight(SubSeq(blocks, 1, Len(blocks) - 1))
             b == blocks[Len(blocks)]
             n == Cardinality({i \in 1..Len(rest) : rest[i].height >= b.height})
         IN  SubSeq(rest, 1, n) \o <<b>> \o SubSeq(rest, n + 1, Len(rest))

\* sorted_blocks[:3]
TopBlocks == 3

\* Confidences of the five techniques, in percent
BlockConfidence == 90

PersonConfidence == 85

LineConfidence == 70

EmailConfidence == 50

FirstLineConfidence == 30

\* Technique 1: the largest header blocks, the first that is no contact
\* information and has at most 5 words
Technique1(header_blocks) ==
    LET top == SubSeq(SortByHeight(header_blocks), 1, Min(TopBlocks, Len(header_blocks)))
        ok == SelectSeq(top, LAMBDA b : ~is_contact_info(b.text) /\ HeaderWordCount(b.text) <= 5)
    IN  IF ok = <<>> THEN <<>>
        ELSE <<[name |-> clean_name(ok[1].text), confidence |-> BlockConfidence]>>

\* Technique 2 with the PERSON match scored below the e-mail fallback
Technique2LowConfidence(persons, hasNlp) ==
    IF hasNlp /\ persons # <<>>
          /\ 2 <= HeaderWordCount(persons[1]) /\ HeaderWordCount(persons[1]) <= 4
    THEN <<[name |-> clean_name(persons[1]), confidence |-> 40]>>
    ELSE <<>>

\* Technique 2: the first PERSON entity of the header text, if spaCy is
\* loaded and the entity has 2 to 4 words
Technique2(persons, hasNlp) ==
    IF hasNlp /\ persons # <<>>
          /\ 2 <= HeaderWordCount(persons[1]) /\ HeaderWordCount(persons[1]) <= 4
    THEN <<[name |-> clean_name(persons[1]), confidence |-> PersonConfidence]>>
    ELSE <<>>

\* Technique 3: of the first 5 lines, the first that is no contact
\* information, has at most 5 words and looks like a name
Technique3(lines) ==
    LET ok == SelectSeq(SubSeq(lines, 1, Min(5, Len(lines))),
                        LAMBDA line : /\ ~is_contact_info(line)
                                      /\ HeaderWordCount(line) <= 5
                                      /\ looks_like_name(line))
    IN  IF ok = <<>> THEN <<>>
        ELSE <<[name |-> clean_name(ok[1]), confidence |-> LineConfidence]>>

\* Technique 4: the local part of the first e-mail address
Technique4(lines) ==
    IF EmailMatch(lines) = <<>> THEN <<>>
    ELSE <<[name |-> EmailName(EmailMatch(lines)[1]), confidence |-> EmailConfidence]>>

\* Technique 5: the first line
Technique5(lines) ==
    IF lines = <<>> THEN <<>>
    ELSE <<[name |-> clean_name(lines[1]), confidence |-> FirstLineConfidence]>>

\* _extract_name(header_text, header_blocks); header_text as its lines,
\* persons the PERSON entities spaCy finds in it
extract_name(header_text, header_blocks, persons, hasNlp) ==
    LET lines == SelectSeq(header_text, LAMBDA line : line # "")
    IN  IF Technique1(header_blocks) # <<>> THEN Technique1(header_blocks)[1]
        ELSE IF Technique2(persons, hasNlp) # <<>> THEN Technique2(persons, hasNlp)[1]
        ELSE IF Technique3(lines) # <<>> THEN Technique3(lines)[1]
        ELSE IF Technique4(lines) # <<>> THEN Technique4(lines)[1]
        ELSE IF Technique5(lines) # <<>> THEN Technique5(lines)[1]
        ELSE [name |-> "", confidence |-> 0]

(***************************************************************************)
(* Layer 6: template_mapper.py                                             *)
(*                                                                         *)
(* The text of a formatted section is the texts of its blocks, the string  *)
(* joining them, and whether its first letter has been capitalised.        *)
(***************************************************************************)
RECURSIVE NonBlankTexts(_)
NonBlankTexts(content_blocks) ==
    IF content_blocks = <<>> THEN <<>>
    ELSE LET rest == NonBlankTexts(Tail(content_blocks))
         IN  IF IsBlank(Head(content_blocks).text) THEN rest
             ELSE <<Head(content_blocks).text>> \o rest

EmptyContent == [texts |-> <<>>, sep |-> "", capitalised |-> FALSE]

\* The same with every section joined line by line
format_section_content_by_line(section_name, content_blocks) ==
    LET texts == NonBlankTexts(content_blocks)
    IN  IF texts = <<>> THEN EmptyContent
        ELSE [texts |-> texts, sep |-> "\n", capitalised |-> FALSE]

\* _format_section_content(section_name, content_blocks)
format_section_content(section_name, content_blocks) ==
    LET texts == NonBlankTexts(content_blocks)
    IN  IF texts = <<>> THEN EmptyContent
        ELSE IF section_name \in {"EMPLOYMENT", "EDUCATION", "PROJECTS"}
        THEN [texts |-> texts, sep |-> "\n\n", capitalised |-> FALSE]
        ELSE IF section_name = "SKILLS"
        THEN IF \E i \in 1..Len(texts) : texts[i].comma
             THEN [texts |-> texts, sep |-> " ", capitalised |-> FALSE]
             ELSE [texts |-> texts, sep |-> ", ", capitalised |-> FALSE]
        ELSE IF section_name = "SUMMARY"
        THEN [texts |-> texts, sep |-> " ", capitalised |-> FALSE]
        ELSE [texts |-> texts, sep |-> "\n", capitalised |-> FALSE]

RECURSIVE FormatSections(_)
FormatSections(sections) ==
    IF sections = <<>> THEN <<>>
    ELSE LET formatted_content ==
                 format_section_content(Head(sections).name, Head(sections).blocks)
             rest == FormatSections(Tail(sections))
         IN  IF formatted_content # EmptyContent
             THEN <<[name |-> Head(sections).name, content |-> formatted_content]>> \o rest
             ELSE rest

\* map_to_template(extracted_data, template_path)
map_to_template(extracted_data) ==
    [name |-> extracted_data.header.name,
     email |-> extracted_data.header.email,
     phone |-> extracted_data.header.phone,
     linkedin |-> extracted_data.header.linkedin,
     github |-> extracted_data.header.github,
     location |-> extracted_data.header.location,
     title |-> extracted_data.header.title,
     sections |-> FormatSections(extracted_data.sections)]

\* create_formatted_output(mapped_data), which nests the header fields under
\* 'candidate_info'; process_resume does not call it
create_formatted_output(mapped) ==
    [candidate_info |->
        [name |-> mapped.name, title |-> mapped.title,
         email |-> mapped.email, phone |-> mapped.phone,
         linkedin |-> mapped.linkedin, github |-> mapped.github,
         location |-> mapped.location],
     sections |-> mapped.sections,
     metadata |-> [extraction_method |-> "OCR-MultiLayer",
                   sections_found |-> AsList([i \in 1..Len(mapped.sections) |->
                                                mapped.sections[i].name])]]

(***************************************************************************)
(* Layer 7: post_processor.py                                              *)
(***************************************************************************)
\* _clean_text on a header field: OCR_CORRECTIONS turn a leading 5 before
\* two word characters into S, and _fix_capitalization raises the first
\* letter
clean_field(value) ==
    CASE value = "john.doe@email.com" -> "John.doe@email.com"
      [] value = "(555) 123-4567" -> "(S55) 123-4567"
      [] value = "linkedin.com/in/johndoe" -> "Linkedin.com/in/johndoe"
      [] OTHER -> value

\* _clean_text on the text of a section: r'\s{2,}' -> ' ' rewrites the blank
\* line between two blocks before r'\n{3,}' is tried, and the first letter
\* is raised
clean_text(content) ==
    IF content.texts = <<>> THEN content
    ELSE [texts |-> content.texts,
          sep |-> IF content.sep = "\n\n" THEN " " ELSE content.sep,
          capitalised |-> TRUE]

\* _clean_all_text(data): only the keys that are in data are copied
clean_all_text(data) ==
    LET keys == DOMAIN data \cap {"candidate_info", "sections", "metadata"}
    IN  [k \in keys |->
            IF k = "candidate_info"
            THEN [f \in DOMAIN data.candidate_info |-> clean_field(data.candidate_info[f])]
            ELSE IF k = "sections"
            THEN AsList([i \in 1..Len(data.sections) |->
                           [name |-> data.sections[i].name,
                            content |-> clean_text(data.sections[i].content)]])
            ELSE data[k]]

\* data.get('candidate_info', {}).get(field, '')
CandidateField(data, field) ==
    IF "candidate_info" \in DOMAIN data /\ field \in DOMAIN data.candidate_info
    THEN data.candidate_info[field] ELSE ""

\* data.get('sections', {}).get(section_name, '')
SectionContent(data, section_name) ==
    IF "sections" \in DOMAIN data /\ section_name \in DictKeys(data.sections)
    THEN (CHOOSE e \in Range(data.sections) : e.name = section_name).content
    ELSE EmptyContent

RECURSIVE WordCount(_)
WordCount(texts) ==
    IF texts = <<>> THEN 0
    ELSE Cardinality(Head(texts).words) + WordCount(Tail(texts))

\* len(value.split()) of a header field
FieldWordCount(value) ==
    CASE value = "" -> 0
      [] value \in {"John Doe"} -> 2
      [] value \in {"San Francisco, CA", "Senior Software Engineer"} -> 3
      [] OTHER -> 1

\* _validate_completeness(data)
validate_completeness(data) ==
    LET name == CandidateField(data, "name") # ""
        email == CandidateField(data, "email") # ""
        phone == CandidateField(data, "phone") # ""
        employment == SectionContent(data, "EMPLOYMENT") # EmptyContent
        education == SectionContent(data, "EDUCATION") # EmptyContent
    IN  [name |-> name, email |-> email, phone |-> phone,
         contact_info |-> email \/ phone,
         employment |-> employment, education |-> education,
         skills |-> SectionContent(data, "SKILLS") # EmptyContent,
         summary |-> SectionContent(data, "SUMMARY") # EmptyContent,
         required_fields_present |-> name /\ (email \/ phone) /\ employment /\ education]

\* Scores in ten-thousandths, weights in hundredths
ScoreUnit == 10000

NameScore(name) ==
    IF name = "" THEN 0
    ELSE IF FieldWordCount(name) \in 2..4 THEN 9500
    ELSE IF FieldWordCount(name) = 1 THEN 5000
    ELSE 7000

SectionScore(content) ==
    IF content = EmptyContent THEN 0
    ELSE IF WordCount(content.texts) > 20 THEN 9000
    ELSE IF WordCount(content.texts) > 5 THEN 7000
    ELSE 5000

weights ==
    [name |-> 25, contact |-> 15, employment |-> 25, education |-> 20,
     skills |-> 10, summary |-> 5]

\* _calculate_quality_scores(data, completeness)
calculate_quality_scores(data, completeness) ==
    LET contact_count == Cardinality({field \in {"email", "phone", "linkedin"} :
                                         CandidateField(data, field) # ""})
        scores == [name |-> NameScore(CandidateField(data, "name")),
                   contact |-> Min(ScoreUnit, (contact_count * ScoreUnit) \div 2),
                   employment |-> SectionScore(SectionContent(data, "EMPLOYMENT")),
                   education |-> SectionScore(SectionContent(data, "EDUCATION")),
                   skills |-> SectionScore(SectionContent(data, "SKILLS")),
                   summary |-> SectionScore(SectionContent(data, "SUMMARY"))]
    IN  [name |-> scores.name, contact |-> scores.contact,
         employment |-> scores.employment, education |-> scores.education,
         skills |-> scores.skills, summary |-> scores.summary,
         overall |-> (scores.name * weights.name + scores.contact * weights.contact
                      + scores.employment * weights.employment
                      + scores.education * weights.education
                      + scores.skills * weights.skills
                      + scores.summary * weights.summary) \div 100]

\* Appends item to list when cond holds
AppendIf(list, cond, item) == IF cond THEN Append(list, item) ELSE list

\* _generate_feedback(data, quality_scores)
generate_feedback(data, quality_scores) ==
    LET w1 == AppendIf(<<>>, quality_scores.name < 6000,
                       "Candidate name may be incomplete or unclear")
        w2 == AppendIf(w1, quality_scores.contact < 5000,
                       "Limited contact information extracted")
        w3 == AppendIf(w2, quality_scores.employment < 5000,
                       "Employment section may be incomplete")
        w4 == AppendIf(w3, quality_scores.education < 5000,
                       "Education section may be incomplete")
        w5 == AppendIf(w4, quality_scores.overall < 6000,
                       "Overall extraction quality is low")
        r1 == AppendIf(<<>>, quality_scores.name < 6000,
                       "Please verify the candidate name manually")
        r2 == AppendIf(r1, quality_scores.contact < 5000,
                       "Please add email or phone number manually")
        r3 == AppendIf(r2, quality_scores.employment < 5000,
                       "Please review and complete employment history")
        r4 == AppendIf(r3, quality_scores.education < 5000,
                       "Please review and complete education details")
        r5 == IF quality_scores.overall < 6000
              THEN Append(r4, "Manual review and editing strongly recommended")
              ELSE AppendIf(r4, quality_scores.overall < 8000,
                            "Please verify all sections for accuracy")
    IN  [warnings |-> w5, recommendations |-> r5]

\* The number of characters of a word of the modelled texts
WordChars(w) ==
    CASE w \in {"sql"} -> 3
      [] w \in {"work"} -> 4
      [] w \in {"google", "python"} -> 6
      [] w \in {"project", "company", "hobbies"} -> 7
      [] w \in {"achieved", "bachelor", "engineer", "projects"} -> 8
      [] w \in {"developed", "educ4tion"} -> 9
      [] w \in {"university", "experience"} -> 10

\* len(text) of a modelled text: its words, a blank or a comma and a blank
\* between two of them
TextChars(text) ==
    LET n == Cardinality(text.words)
        RECURSIVE Sum(_)
        Sum(ws) == IF ws = {} THEN 0
                   ELSE LET w == CHOOSE x \in ws : TRUE
                        IN  WordChars(w) + Sum(ws \ {w})
    IN  IF n = 0 THEN 0
        ELSE Sum(text.words) + (n - 1) * (IF text.comma THEN 2 ELSE 1)

SepChars(sep) == IF sep \in {"\n\n", ", "} THEN 2 ELSE 1

\* The text of a section as the strings it is joined from, each with its
\* length: block text, separator, block text, ...
RECURSIVE Pieces(_, _)
Pieces(texts, sep) ==
    IF texts = <<>> THEN <<>>
    ELSE IF Len(texts) = 1 THEN <<[piece |-> Head(texts), chars |-> TextChars(Head(texts))]>>
    ELSE <<[piece |-> Head(texts), chars |-> TextChars(Head(texts))],
           [piece |-> sep, chars |-> SepChars(sep)]>> \o Pieces(Tail(texts), sep)

RECURSIVE PiecesChars(_)
PiecesChars(pieces) ==
    IF pieces = <<>> THEN 0 ELSE Head(pieces).chars + PiecesChars(Tail(pieces))

\* len(content)
ContentChars(content) == PiecesChars(Pieces(content.texts, content.sep))

\* content[:n]: the pieces that lie in the first n characters, the last of
\* them cut.  No modelled text is the beginning of another, so two contents
\* agree on their first n characters iff these agree.
RECURSIVE TakeChars(_, _)
TakeChars(pieces, n) ==
    IF pieces = <<>> \/ n <= 0 THEN <<>>
    ELSE <<[piece |-> Head(pieces).piece, chars |-> Min(n, Head(pieces).chars)]>>
            \o TakeChars(Tail(pieces), n - Head(pieces).chars)

FirstChars(content, n) == TakeChars(Pieces(content.texts, content.sep), n)

ShortSectionWords == 5

OverlapChars == 50

\* _cross_reference_validation(data)
cross_reference_validation(data) ==
    LET sections == IF "sections" \in DOMAIN data THEN data.sections ELSE <<>>
        section_texts == AsList([i \in 1..Len(sections) |-> sections[i].content])
        RECURSIVE Short(_)
        Short(k) ==
            IF k = 0 THEN <<>>
            ELSE AppendIf(Short(k - 1),
                          WordCount(sections[k].content.texts) < ShortSectionWords,
                          sections[k].name \o " section is very short - may be incomplete")
        Overlaps(i) ==
            \E j \in (i + 1)..Len(section_texts) :
               /\ ContentChars(section_texts[i]) > OverlapChars
               /\ ContentChars(section_texts[j]) > OverlapChars
               /\ FirstChars(section_texts[i], OverlapChars)
                     = FirstChars(section_texts[j], OverlapChars)
        RECURSIVE Duplicates(_)
        Duplicates(k) ==
            IF k = 0 THEN <<>>
            ELSE AppendIf(Duplicates(k - 1), Overlaps(k),
                          "Potential duplicate content detected across sections")
    IN  Short(Len(sections)) \o Duplicates(Len(section_texts))

\* data.get(key, {})
GetOrEmpty(data, key) == IF key \in DOMAIN data THEN data[key] ELSE <<>>

\* process_final_output(mapped_data)
process_final_output(mapped) ==
    LET cleaned_data == clean_all_text(mapped)
        completeness == validate_completeness(cleaned_data)
        quality_scores == calculate_quality_scores(cleaned_data, completeness)
        feedback == generate_feedback(cleaned_data, quality_scores)
        cross_ref_issues == cross_reference_validation(cleaned_data)
    IN  [candidate_info |-> GetOrEmpty(cleaned_data, "candidate_info"),
         sections |-> GetOrEmpty(cleaned_data, "sections"),
         metadata |-> GetOrEmpty(cleaned_data, "metadata"),
         quality_scores |-> quality_scores,
         completeness |-> completeness,
         warnings |-> feedback.warnings \o cross_ref_issues,
         recommendations |-> feedback.recommendations]

(***************************************************************************)
(* Calls of ContentValidator.validate_sections on sections a caller built  *)
(***************************************************************************)
MaxBlocks == 2

\* Section names a caller files blocks under; ACHIEVEMENTS has no signature.
InputSections == {"EMPLOYMENT", "EDUCATION", "PROJECTS", "ACHIEVEMENTS"}

InputTexts ==
    { EmptyText,
      Words({"developed"}),
      Words({"achieved"}),
      Words({"company"}),
      Words({"bachelor", "university"}),
      Words({"engineer", "google"}),
      List({"python", "sql"}) }

\* The blocks entries[1..k], each filed under its section in turn
RECURSIVE FileBlocks(_, _)
FileBlocks(entries, k) ==
    IF k = 0 THEN <<>>
    ELSE DictAppend(DictEnsure(FileBlocks(entries, k - 1), entries[k][1]),
                    entries[k][1], Block(k, entries[k][2], k))

ValidatorInputs ==
    { FileBlocks(entries, Len(entries)) :
        entries \in UNION { [1..n -> InputSections \X InputTexts] : n \in 0..MaxBlocks } }

InitValidator ==
    /\ nlp \in BOOLEAN
    /\ PipelineIdle
    /\ HarnessesIdle
    /\ v_pc = "in"
    /\ v_in \in ValidatorInputs
    /\ v_out = <<>>
    /\ v_prev = <<>>
    /\ v_moved = <<>>
    /\ v_removed = <<>>

\* validator.validate_sections(sections)
ValidateFirst ==
    /\ v_pc = "in"
    /\ LET r == validate_sections(v_in, nlp)
       IN  /\ v_out' = r.validated
           /\ v_moved' = r.moved
           /\ v_removed' = r.removed
    /\ v_prev' = v_prev
    /\ v_pc' = "once"
    /\ UNCHANGED <<nlp, v_in, pvars, hvars>>

\* validator.validate_sections(validated): a second pass over the first's output
ValidateAgain ==
    /\ v_pc = "once"
    /\ LET r == validate_sections(v_out, nlp)
       IN  /\ v_out' = r.validated
           /\ v_moved' = r.moved
           /\ v_removed' = r.removed
    /\ v_prev' = v_out
    /\ v_pc' = "twice"
    /\ UNCHANGED <<nlp, v_in, pvars, hvars>>

NextValidator == ValidateFirst \/ ValidateAgain

SpecValidator == InitValidator /\ [][NextValidator]_vars

(***************************************************************************)
(* The orchestrator: advanced_resume_ocr.py                                *)
(***************************************************************************)
MaxPageBlocks == 4

\* A value a local or the result holds once it is assigned
Some(x) == <<x>>

Val(x) == x[1]

\* What the layout analysis and the OCR find on a page: heading blocks and
\* body blocks from top to bottom, and the text of the header zone
PageHeadings == {"work experience", "projects"}

PageTexts == {Words({"developed"}), Words({"project"})}

PageBlocks ==
    {[kind |-> "heading", heading |-> h, text |-> EmptyText] : h \in PageHeadings}
       \cup {[kind |-> "body", heading |-> "", text |-> t] : t \in PageTexts}

\* The width of every page image, in pixels
PageWidth == 200

\* Blocks one below the other, each as wide as the page
Stacked(b) ==
    AsList([i \in 1..Len(b) |->
              [kind |-> b[i].kind, heading |-> b[i].heading, text |-> b[i].text,
               x |-> 0, y |-> i, width |-> PageWidth]])

Documents ==
    { [header |-> h, blocks |-> Stacked(b)] :
        h \in HeaderTexts,
        b \in UNION { [1..n -> PageBlocks] : n \in 0..MaxPageBlocks } }

\* The text DOCXImageExtractor.extract_text_from_docx finds in a DOCX
DocxTexts == {"", "resume text"}

\* Exceptions a stage or a loading step raises: classes below Exception,
\* with str(e)
Exceptions ==
    {[class |-> "ImportError", msg |-> "No module named 'fitz'"],
     [class |-> "OSError", msg |-> "cannot identify image file"]}

IsInstance(e, class) == class = "Exception" \/ e.class = class

StageOrder == <<"layer1", "layer2", "layer3", "layer4", "layer5", "layer6", "layer7">>

Stages == Range(StageOrder)

\* A process_resume that extracts the header before it validates the content
StageAfterHeaderFirst(stage) ==
    CASE stage = "layer1" -> "layer2"
      [] stage = "layer2" -> "layer3"
      [] stage = "layer3" -> "layer5"
      [] stage = "layer5" -> "layer4"
      [] stage = "layer4" -> "layer6"
      [] stage = "layer6" -> "layer7"

\* process_resume: where control goes when a stage has returned
StageAfter(stage) ==
    CASE stage = "layer1" -> "layer2"
      [] stage = "layer2" -> "layer3"
      [] stage = "layer3" -> "layer4"
      [] stage = "layer4" -> "layer5"
      [] stage = "layer5" -> "layer6"
      [] stage = "layer6" -> "layer7"

\* Functions whose only except clause is `except ImportError`
ExceptClausesImportErrorOnly(function) == <<"ImportError">>

\* The except clauses around a point of a function, in the order written
ExceptClauses(function) ==
    CASE function = "process_resume" -> <<"Exception">>
      [] function = "process_pdf_resume" -> <<"ImportError", "Exception">>
      [] function = "process_docx_resume" -> <<"Exception">>

\* The result an except clause returns
FailureResult(function, class, e) ==
    CASE function = "process_resume" ->
            [success |-> FALSE,
             error |-> "Error processing resume: " \o e.msg,
             candidate_info |-> <<>>,
             sections |-> <<>>,
             quality_scores |-> [overall |-> 0],
             warnings |-> <<"Error processing resume: " \o e.msg>>,
             recommendations |-> <<"Please try manual data entry">>]
      [] function = "process_pdf_resume" /\ class = "ImportError" ->
            [success |-> FALSE,
             error |-> "PyMuPDF not installed. Install with: pip install PyMuPDF",
             warnings |-> <<"Cannot process PDF files without PyMuPDF">>,
             recommendations |-> <<"Install PyMuPDF or convert PDF to image first">>]
      [] function = "process_pdf_resume" /\ class = "Exception" ->
            [success |-> FALSE,
             error |-> "Error processing PDF: " \o e.msg,
             warnings |-> <<e.msg>>,
             recommendations |-> <<"Try converting PDF to image manually">>]
      [] function = "process_docx_resume" ->
            [success |-> FALSE,
             error |-> "Error processing DOCX: " \o e.msg,
             warnings |-> <<e.msg>>,
             recommendations |-> <<"Try converting DOCX to PDF or image first">>]

\* process_docx_resume when the DOCX holds no image
DocxFallbackResult(text) ==
    IF text # ""
    THEN [success |-> TRUE,
          candidate_info |-> [name |-> "Unknown"],
          sections |-> <<[name |-> "RAW_TEXT", content |-> text]>>,
          quality_scores |-> [overall |-> ScoreUnit \div 2],
          warnings |-> <<"No images found in DOCX, extracted text only">>,
          recommendations |-> <<"Convert resume to image format for better OCR">>]
    ELSE [success |-> FALSE,
          error |-> "No images or text found in DOCX",
          warnings |-> <<"DOCX appears to be empty">>,
          recommendations |-> <<"Please check the DOCX file">>]

\* The functions whose try blocks enclose a point of the call, innermost
\* first
TryBlocks(called, at) ==
    (IF at \in Stages THEN <<"process_resume">> ELSE <<>>)
       \o (CASE called = "pdf" -> <<"process_pdf_resume">>
             [] called = "docx" -> <<"process_docx_resume">>
             [] OTHER -> <<>>)

\* The first except clause of a function that takes e, 0 if none does
MatchingClause(function, e) ==
    LET clauses == ExceptClauses(function)
        hits == {i \in 1..Len(clauses) : IsInstance(e, clauses[i])}
    IN  IF hits = {} THEN 0 ELSE CHOOSE i \in hits : \A j \in hits : i <= j

\* Raising e inside the given try blocks: the result of the innermost clause
\* that takes it, or <<>> when e leaves the outermost function
RECURSIVE Unwind(_, _)
Unwind(e, blocks) ==
    IF blocks = <<>> THEN <<>>
    ELSE LET c == MatchingClause(Head(blocks), e)
         IN  IF c = 0 THEN Unwind(e, Tail(blocks))
             ELSE Some(FailureResult(Head(blocks), ExceptClauses(Head(blocks))[c], e))

Init ==
    /\ nlp \in BOOLEAN
    /\ PipelineIdle
    /\ ValidatorIdle
    /\ HarnessesIdle

\* The call is over: its argument and its locals are gone
Leave(outcome) ==
    /\ pc' = IF outcome = <<>> THEN "escaped" ELSE "returned"
    /\ result' = outcome
    /\ doc' = <<>>
    /\ layout_info' = <<>>
    /\ ocr_results' = <<>>
    /\ identified_sections' = <<>>
    /\ validated_sections' = <<>>
    /\ header_info' = <<>>
    /\ mapped_data' = <<>>

\* process_resume(image_path)
CallImage ==
    /\ pc = "idle"
    /\ entry' = "image"
    /\ doc' \in Documents
    /\ pc' = "layer1"
    /\ UNCHANGED <<nlp, locals, result, ran, failed, vvars, hvars>>

\* process_pdf_resume(pdf_path)
CallPdf ==
    /\ pc = "idle"
    /\ entry' = "pdf"
    /\ doc' \in Documents
    /\ pc' = "pdf_load"
    /\ UNCHANGED <<nlp, locals, result, ran, failed, vvars, hvars>>

\* process_docx_resume(docx_path)
CallDocx ==
    /\ pc = "idle"
    /\ entry' = "docx"
    /\ doc' \in Documents
    /\ pc' = "docx_load"
    /\ UNCHANGED <<nlp, locals, result, ran, failed, vvars, hvars>>

\* process_pdf_resume: the first page is rendered and handed to process_resume
PdfLoad ==
    /\ pc = "pdf_load"
    /\ pc' = "layer1"
    /\ UNCHANGED <<nlp, entry, doc, locals, result, ran, failed, vvars, hvars>>

\* process_docx_resume: the embedded images are combined and handed to
\* process_resume
DocxLoad ==
    /\ pc = "docx_load"
    /\ pc' = "layer1"
    /\ UNCHANGED <<nlp, entry, doc, locals, result, ran, failed, vvars, hvars>>

\* process_docx_resume: no image in the DOCX, its text is tried instead
DocxNoImages ==
    /\ pc = "docx_load"
    /\ \E text \in DocxTexts : Leave(Some(DocxFallbackResult(text)))
    /\ UNCHANGED <<nlp, entry, ran, failed, vvars, hvars>>

\* import fitz, fitz.open, get_pixmap, Image.open or docx_to_ocr_image,
\* extract_text_from_docx raises
LoadRaises ==
    /\ pc \in {"pdf_load", "docx_load"}
    /\ \E e \in Exceptions : Leave(Unwind(e, TryBlocks(entry, pc)))
    /\ failed' = pc
    /\ UNCHANGED <<nlp, entry, ran, vvars, hvars>>

\* One of the seven stages raises
StageRaises ==
    /\ pc \in Stages
    /\ \E e \in Exceptions : Leave(Unwind(e, TryBlocks(entry, pc)))
    /\ ran' = Append(ran, pc)
    /\ failed' = pc
    /\ UNCHANGED <<nlp, entry, vvars, hvars>>

\* self.column_gap_threshold: min pixels between columns
column_gap_threshold == 50

\* hist[px] > 0: some block covers the pixel column px
Covered(text_blocks, page_width, px) ==
    \E i \in 1..Len(text_blocks) :
        /\ text_blocks[i].x <= px
        /\ px < Min(text_blocks[i].x + text_blocks[i].width, page_width)

\* The gaps the scan of the histogram appends: a run of uncovered pixel
\* columns that ends at a covered one and is wider than the threshold.  A
\* run starts at pixel 0 or where a block ends, and ends where a block starts
Gaps(text_blocks, page_width) ==
    LET cov(px) == Covered(text_blocks, page_width, px)
        edges == {0} \cup {text_blocks[i].x : i \in 1..Len(text_blocks)}
                     \cup {text_blocks[i].x + text_blocks[i].width : i \in 1..Len(text_blocks)}
        starts == {s \in edges \cap 0..(page_width - 1) : ~cov(s) /\ (s = 0 \/ cov(s - 1))}
        ends(s) == {e \in edges \cap (s + 1)..(page_width - 1) : cov(e)}
        first(s) == CHOOSE e \in ends(s) : \A f \in ends(s) : e <= f
    IN  {<<s, first(s)>> : s \in {t \in starts : ends(t) # {}
                                     /\ first(t) - t > column_gap_threshold}}

\* _detect_columns(text_blocks, page_width); max() keeps the first of the
\* widest gaps
detect_columns(text_blocks, page_width) ==
    LET gaps == Gaps(text_blocks, page_width)
        largest_gap == CHOOSE g \in gaps :
                          \A h \in gaps : \/ g[2] - g[1] > h[2] - h[1]
                                           \/ (g[2] - g[1] = h[2] - h[1] /\ g[1] <= h[1])
    IN  IF Len(text_blocks) = 0 \/ gaps = {}
        THEN [count |-> 1, divider |-> -1]
        ELSE [count |-> 2, divider |-> (largest_gap[1] + largest_gap[2]) \div 2]

\* sorted(..., key=lambda x: (x[1]['y'], x[1]['x'])) over block indices: a
\* stable insertion sort
RECURSIVE SortByYX(_, _)
SortByYX(text_blocks, idxs) ==
    IF Len(idxs) <= 1 THEN idxs
    ELSE LET rest == SortByYX(text_blocks, SubSeq(idxs, 1, Len(idxs) - 1))
             b == text_blocks[idxs[Len(idxs)]]
             n == Cardinality({i \in 1..Len(rest) :
                                 \/ text_blocks[rest[i]].y < b.y
                                 \/ (text_blocks[rest[i]].y = b.y
                                     /\ text_blocks[rest[i]].x <= b.x)})
         IN  SubSeq(rest, 1, n) \o <<idxs[Len(idxs)]>> \o SubSeq(rest, n + 1, Len(rest))

\* block_center = block['x'] + block['width'] / 2; block_center < divider
LeftOf(block, divider) == 2 * block.x + block.width < 2 * divider

\* The same with the blocks of the right column put first
create_reading_order_right_first(text_blocks, columns) ==
    LET all == AsList([i \in 1..Len(text_blocks) |-> i])
    IN  SortByYX(text_blocks, SelectSeq(all, LAMBDA i : ~LeftOf(text_blocks[i], columns.divider)))
        \o SortByYX(text_blocks, SelectSeq(all, LAMBDA i : LeftOf(text_blocks[i], columns.divider)))

\* _create_reading_order(text_blocks, columns): the block indices in
\* reading order
create_reading_order(text_blocks, columns) ==
    LET all == AsList([i \in 1..Len(text_blocks) |-> i])
    IN  IF columns.count = 1
        THEN SortByYX(text_blocks, all)
        ELSE SortByYX(text_blocks,
                      SelectSeq(all, LAMBDA i : LeftOf(text_blocks[i], columns.divider)))
             \o SortByYX(text_blocks,
                         SelectSeq(all, LAMBDA i : ~LeftOf(text_blocks[i], columns.divider)))

\* Block texts of _identify_headings, and what text.isupper(),
\* len(text.split()) and the section_keywords test give on each
HeadingCandidates ==
    {"TECHNICAL SKILLS", "John Doe", "Led the migration of billing to cloud",
     "Gained experience in several large data teams",
     "REDUCED COSTS BY TEN PERCENT IN 2020"}

TextIsUpper(text) == text \in {"TECHNICAL SKILLS", "REDUCED COSTS BY TEN PERCENT IN 2020"}

TextWordCount(text) ==
    CASE text = "TECHNICAL SKILLS" -> 2
      [] text = "John Doe" -> 2
      [] OTHER -> 7

HasSectionKeyword(text) ==
    text \in {"TECHNICAL SKILLS", "Gained experience in several large data teams"}

\* Ratios of _identify_headings, in percent
heading_size_ratio == 130

BoldnessRatio == 120

ShortHeightRatio == 110

AllCapsMaxWords == 5

ShortMaxWords == 4

KeywordMaxWords == 5

\* sorted(heights)
RECURSIVE SortedHeights(_)
SortedHeights(heights) ==
    IF Len(heights) <= 1 THEN heights
    ELSE LET rest == SortedHeights(SubSeq(heights, 1, Len(heights) - 1))
             h == heights[Len(heights)]
             before == {i \in 1..Len(rest) : rest[i] <= h}
             k == Cardinality(before)
         IN  SubSeq(rest, 1, k) \o <<h>> \o SubSeq(rest, k + 1, Len(rest))

\* Twice np.median(heights), for a non-empty list
TwiceMedian(heights) ==
    LET sorted == SortedHeights(heights)
        n == Len(sorted)
    IN  IF n % 2 = 1 THEN 2 * sorted[(n + 1) \div 2]
        ELSE sorted[n \div 2] + sorted[n \div 2 + 1]

\* The reasons of one block, in the order of the five checks; twice_avg is
\* twice avg_height
HeadingReasons(block, twice_avg) ==
    LET word_count == TextWordCount(block.text)
    IN  (IF 200 * block.height > twice_avg * heading_size_ratio THEN <<"size">> ELSE <<>>)
        \o (IF TextIsUpper(block.text) /\ word_count <= AllCapsMaxWords
            THEN <<"all_caps">> ELSE <<>>)
        \o (IF block.boldness > BoldnessRatio THEN <<"bold">> ELSE <<>>)
        \o (IF word_count <= ShortMaxWords /\ 200 * block.height > twice_avg * ShortHeightRatio
            THEN <<"short">> ELSE <<>>)
        \o (IF HasSectionKeyword(block.text) /\ word_count <= KeywordMaxWords
            THEN <<"keyword">> ELSE <<>>)

\* _identify_headings(text_blocks, img): the text blocks as the call leaves
\* them; the headings returned are those with is_heading.  boldness is what
\* _estimate_boldness returns for the block, in percent.
identify_headings(text_blocks) ==
    LET heights == SelectSeq(AsList([i \in 1..Len(text_blocks) |-> text_blocks[i].height]),
                             LAMBDA h : h > 0)
    IN  IF Len(text_blocks) = 0 \/ Len(heights) = 0
        THEN AsList([i \in 1..Len(text_blocks) |->
                        [text_blocks[i] EXCEPT !.is_heading = FALSE, !.heading_reasons = <<>>]])
        ELSE AsList([i \in 1..Len(text_blocks) |->
                LET reasons == HeadingReasons(text_blocks[i], TwiceMedian(heights))
                IN  [text_blocks[i] EXCEPT !.is_heading = (reasons # <<>>),
                                           !.heading_reasons = reasons]])

\* analyze_layout(image_path): the text blocks at their page positions,
\* those of them that are headings, the columns and the reading order
analyze_layout(image) ==
    LET text_blocks == AsList([i \in 1..Len(image.blocks) |->
                                 [block_num |-> i,
                                  x |-> image.blocks[i].x,
                                  y |-> image.blocks[i].y,
                                  width |-> image.blocks[i].width,
                                  is_heading |-> image.blocks[i].kind = "heading"]])
        columns == detect_columns(text_blocks, PageWidth)
    IN  [text_blocks |-> text_blocks,
         headings |-> SelectSeq(text_blocks, LAMBDA b : b.is_heading),
         columns |-> columns,
         reading_order |-> create_reading_order(text_blocks, columns)]

\* perform_multipass_ocr(image_path, layout_info): pass 1 reads the header
\* zone, pass 2 the headings, pass 3 the other blocks, of which it keeps
\* those with text
perform_multipass_ocr(image, layout) ==
    LET body_blocks == SelectSeq(layout.text_blocks,
                                 LAMBDA b : ~b.is_heading
                                            /\ ~IsBlank(image.blocks[b.block_num].text))
    IN  [header_ocr |-> [text |-> image.header],
         section_headers_ocr |->
            AsList([i \in 1..Len(layout.headings) |->
                      [text |-> image.blocks[layout.headings[i].block_num].heading,
                       id |-> layout.headings[i].block_num,
                       y |-> layout.headings[i].y]]),
         body_ocr |->
            AsList([i \in 1..Len(body_blocks) |->
                      [text |-> image.blocks[body_blocks[i].block_num].text,
                       id |-> body_blocks[i].block_num,
                       y |-> body_blocks[i].y]])]

\* LAYER 1: layout_info = self.layout_analyzer.analyze_layout(image_path)
Layer1 ==
    /\ pc = "layer1"
    /\ layout_info' = Some(analyze_layout(doc))
    /\ ran' = Append(ran, "layer1")
    /\ pc' = StageAfter("layer1")
    /\ UNCHANGED <<nlp, entry, doc, ocr_results, identified_sections,
                   validated_sections, header_info, mapped_data, result, failed, vvars, hvars>>

\* LAYER 2: ocr_results = self.ocr_engine.perform_multipass_ocr(...)
Layer2 ==
    /\ pc = "layer2"
    /\ ocr_results' = Some(perform_multipass_ocr(doc, Val(layout_info)))
    /\ ran' = Append(ran, "layer2")
    /\ pc' = StageAfter("layer2")
    /\ UNCHANGED <<nlp, entry, doc, layout_info, identified_sections,
                   validated_sections, header_info, mapped_data, result, failed, vvars, hvars>>

\* LAYER 3: identified_sections = self.section_identifier.identify_sections(...)
Layer3 ==
    /\ pc = "layer3"
    /\ identified_sections' = Some(identify_sections(Val(ocr_results), nlp))
    /\ ran' = Append(ran, "layer3")
    /\ pc' = StageAfter("layer3")
    /\ UNCHANGED <<nlp, entry, doc, layout_info, ocr_results,
                   validated_sections, header_info, mapped_data, result, failed, vvars, hvars>>

\* LAYER 4: validated_sections = self.content_validator.validate_sections(...)
Layer4 ==
    /\ pc = "layer4"
    /\ validated_sections' =
          Some(validate_sections(Val(identified_sections), nlp).validated)
    /\ ran' = Append(ran, "layer4")
    /\ pc' = StageAfter("layer4")
    /\ UNCHANGED <<nlp, entry, doc, layout_info, ocr_results,
                   identified_sections, header_info, mapped_data, result, failed, vvars, hvars>>

\* LAYER 5: header_info = self.header_extractor.extract_header_info(...)
Layer5 ==
    /\ pc = "layer5"
    /\ header_info' =
          Some(extract_header_info(Val(ocr_results).header_ocr, Val(layout_info)))
    /\ ran' = Append(ran, "layer5")
    /\ pc' = StageAfter("layer5")
    /\ UNCHANGED <<nlp, entry, doc, layout_info, ocr_results,
                   identified_sections, validated_sections, mapped_data, result,
                   failed, vvars, hvars>>

\* LAYER 6: mapped_data = self.template_mapper.map_to_template(extracted_data)
Layer6 ==
    /\ pc = "layer6"
    /\ LET extracted_data == [header |-> Val(header_info),
                              sections |-> Val(validated_sections)]
       IN  mapped_data' = Some(map_to_template(extracted_data))
    /\ ran' = Append(ran, "layer6")
    /\ pc' = StageAfter("layer6")
    /\ UNCHANGED <<nlp, entry, doc, layout_info, ocr_results,
                   identified_sections, validated_sections, header_info, result,
                   failed, vvars, hvars>>

\* LAYER 7: final_output = self.post_processor.process_final_output(mapped_data),
\* with the processing metadata added, is returned
Layer7 ==
    /\ pc = "layer7"
    /\ LET final_output == process_final_output(Val(mapped_data))
       IN  Leave(Some(final_output @@ [processing_time |-> "elapsed",
                                       pipeline_version |-> "1.0.0"]))
    /\ ran' = Append(ran, "layer7")
    /\ UNCHANGED <<nlp, entry, failed, vvars, hvars>>

Next ==
    \/ CallImage
    \/ CallPdf
    \/ CallDocx
    \/ PdfLoad
    \/ DocxLoad
    \/ DocxNoImages
    \/ LoadRaises
    \/ StageRaises
    \/ Layer1
    \/ Layer2
    \/ Layer3
    \/ Layer4
    \/ Layer5
    \/ Layer6
    \/ Layer7

Spec == Init /\ [][Next]_vars

(***************************************************************************)
(* Layers 1 to 3 on pages whose blocks stand in columns                    *)
(***************************************************************************)
MaxLayoutBlocks == 3

\* Where a block stands across the page: at the left edge, 50 pixels to
\* the right of that one, and at the right, running over the page's edge
BlockPlaces == {[x |-> 0, width |-> 10], [x |-> 60, width |-> 10], [x |-> 130, width |-> 80]}

\* The top edges of the blocks
BlockRows == {0, 1}

LayoutContents ==
    {[kind |-> "heading", heading |-> h, text |-> EmptyText] : h \in PageHeadings}
       \cup {[kind |-> "body", heading |-> "", text |-> Words({"developed"})]}

LayoutBlocks ==
    {[kind |-> c.kind, heading |-> c.heading, text |-> c.text,
      x |-> p.x, y |-> y, width |-> p.width] :
        c \in LayoutContents, p \in BlockPlaces, y \in BlockRows}

LayoutPages ==
    { [header |-> "", blocks |-> b] :
        b \in UNION { [1..n -> LayoutBlocks] : n \in 0..MaxLayoutBlocks } }

InitLayout ==
    /\ nlp \in BOOLEAN
    /\ PipelineIdle
    /\ ValidatorIdle
    /\ NameIdle
    /\ MapperIdle
    /\ CapabilitiesIdle
    /\ ThreadsIdle
    /\ FunctionsIdle
    /\ ModelCacheIdle
    /\ l_pc = "page"
    /\ l_image \in LayoutPages
    /\ l_layout = <<>>
    /\ l_ocr = <<>>
    /\ l_sections = <<>>

\* layout_info = self.layout_analyzer.analyze_layout(image_path)
AnalyzeLayout ==
    /\ l_pc = "page"
    /\ l_layout' = Some(analyze_layout(l_image))
    /\ l_pc' = "layout"
    /\ UNCHANGED <<nlp, pvars, vvars, nvars, mvars, cvars, tvars, fvars, gvars, l_image, l_ocr, l_sections>>

\* ocr_results = self.ocr_engine.perform_multipass_ocr(image_path, layout_info)
MultipassOcr ==
    /\ l_pc = "layout"
    /\ l_ocr' = Some(perform_multipass_ocr(l_image, Val(l_layout)))
    /\ l_pc' = "ocr"
    /\ UNCHANGED <<nlp, pvars, vvars, nvars, mvars, cvars, tvars, fvars, gvars, l_image, l_layout, l_sections>>

\* identified_sections = self.section_identifier.identify_sections(ocr_results)
IdentifySections ==
    /\ l_pc = "ocr"
    /\ l_sections' = Some(identify_sections(Val(l_ocr), nlp))
    /\ l_pc' = "identified"
    /\ UNCHANGED <<nlp, pvars, vvars, nvars, mvars, cvars, tvars, fvars, gvars, l_image, l_layout, l_ocr>>

NextLayout == AnalyzeLayout \/ MultipassOcr \/ IdentifySections

SpecLayout == InitLayout /\ [][NextLayout]_vars



(***************************************************************************)
(* _extract_name on headers of a few lines and blocks                      *)
(***************************************************************************)
MaxHeaderLines == 2

\* One block more than _extract_name looks at
MaxHeaderBlocks == TopBlocks + 1

HeaderLineTexts == {"", NameLine, EmailLine, TitleLine}

HeaderBlocks ==
    {[text |-> EmailLine, height |-> 3], [text |-> SummaryBlock, height |-> 2],
     [text |-> "", height |-> 2], [text |-> NameBlock, height |-> 1]}

\* The PERSON entities spaCy may find in the lines: none, or the name or
\* the first name alone where a line holds a name
PersonsIn(lines) ==
    {<<>>} \cup IF \E i \in 1..Len(lines) : lines[i] \in {NameLine, TitleLine}
                THEN {<<"John Doe">>, <<"John">>}
                ELSE {}

HeaderLines == UNION { [1..n -> HeaderLineTexts] : n \in 0..MaxHeaderLines }

HeaderBlockLists == UNION { [1..n -> HeaderBlocks] : n \in 0..MaxHeaderBlocks }

InitName ==
    /\ nlp \in BOOLEAN
    /\ PipelineIdle
    /\ ValidatorIdle
    /\ LayoutIdle
    /\ MapperIdle
    /\ CapabilitiesIdle
    /\ ThreadsIdle
    /\ FunctionsIdle
    /\ ModelCacheIdle
    /\ n_pc = "header"
    /\ \E t \in HeaderLines, b \in HeaderBlockLists :
          \E q \in PersonsIn(t) :
             n_in = [header_text |-> t, header_blocks |-> b, persons |-> q]
    /\ n_out = <<>>

\* name, name_confidence = self._extract_name(header_text, header_blocks)
ExtractName ==
    /\ n_pc = "header"
    /\ n_out' = Some(extract_name(n_in.header_text, n_in.header_blocks, n_in.persons, nlp))
    /\ n_pc' = "named"
    /\ UNCHANGED <<nlp, pvars, vvars, lvars, mvars, cvars, tvars, fvars, gvars, n_in>>

NextName == ExtractName

SpecName == InitName /\ [][NextName]_vars

(***************************************************************************)
(* map_to_template on sections a caller built                              *)
(***************************************************************************)
MaxMapperEntries == 3

MapperSections == {"EMPLOYMENT", "EDUCATION", "PROJECTS", "SKILLS", "SUMMARY", "LANGUAGES"}

\* A blank text, a word, a list
MapperTexts == {EmptyText, Words({"python"}), List({"python", "sql"})}

\* What a caller does to the dict of sections: it makes sure a key is there,
\* or appends a block to the list under it
MapperEntries ==
    {[section |-> n, block |-> <<>>] : n \in MapperSections}
       \cup {[section |-> n, block |-> <<Block(0, t, 0)>>] : n \in MapperSections, t \in MapperTexts}

RECURSIVE BuildSections(_, _)
BuildSections(entries, k) ==
    IF k = 0 THEN <<>>
    ELSE LET d == DictEnsure(BuildSections(entries, k - 1), entries[k].section)
         IN  IF entries[k].block = <<>> THEN d
             ELSE DictAppend(d, entries[k].section, [entries[k].block[1] EXCEPT !.id = k, !.y = k])

\* The header of a page without header text
NoHeader == [name |-> "", email |-> "", phone |-> "", linkedin |-> "", github |-> "",
             location |-> "", title |-> ""]

InitMapper ==
    /\ nlp = FALSE
    /\ PipelineIdle
    /\ ValidatorIdle
    /\ LayoutIdle
    /\ NameIdle
    /\ CapabilitiesIdle
    /\ ThreadsIdle
    /\ FunctionsIdle
    /\ ModelCacheIdle
    /\ m_pc = "extracted"
    /\ \E n \in 0..MaxMapperEntries :
          \E entries \in [1..n -> MapperEntries] :
             m_in = [header |-> NoHeader, sections |-> BuildSections(entries, n)]
    /\ m_out = <<>>

\* mapped_data = self.template_mapper.map_to_template(extracted_data)
MapToTemplate ==
    /\ m_pc = "extracted"
    /\ m_out' = Some(map_to_template(m_in))
    /\ m_pc' = "mapped"
    /\ UNCHANGED <<nlp, pvars, vvars, lvars, nvars, cvars, tvars, fvars, gvars, m_in>>

NextMapper == MapToTemplate

SpecMapper == InitMapper /\ [][NextMapper]_vars

(***************************************************************************)
(* Import and construction of SectionIdentifier with optional packages     *)
(* missing, and a heading matched by it                                    *)
(***************************************************************************)
\* The packages of the optional capabilities: named-entity recognition,
\* sentence embeddings, fuzzy string matching
OptionalPackages == {"spacy", "sentence_transformers", "fuzzywuzzy"}

\* The headings matched: those of the pages, one only the keyword rules
\* resolve and one that is a synonym of two sections
CapabilityHeadings == HeadingTexts \cup {"company", "professional summary"}

InitCapabilities ==
    /\ nlp = FALSE
    /\ PipelineIdle
    /\ ValidatorIdle
    /\ LayoutIdle
    /\ NameIdle
    /\ MapperIdle
    /\ ThreadsIdle
    /\ FunctionsIdle
    /\ ModelCacheIdle
    /\ c_pc = "start"
    /\ c_installed \in SUBSET OptionalPackages
    /\ c_self = <<>>
    /\ c_header \in CapabilityHeadings
    /\ c_semantic = "None"
    /\ c_out = <<>>

\* `from .section_identifier import SectionIdentifier`: the module's imports
\* of lines 10-27 run; those of sentence_transformers and spacy are inside
\* try/except ImportError, that of fuzzywuzzy is not
ImportSectionIdentifier ==
    /\ c_pc = "start"
    /\ IF "fuzzywuzzy" \in c_installed
       THEN c_pc' = "imported" /\ c_out' = c_out
       ELSE /\ c_pc' = "raised"
            /\ c_out' = Some([class |-> "ImportError",
                              msg |-> "No module named 'fuzzywuzzy'"])
    /\ UNCHANGED <<nlp, pvars, vvars, lvars, nvars, mvars, tvars, fvars, gvars,
                   c_installed, c_self, c_header, c_semantic>>

\* SectionIdentifier(): the model and the spaCy pipeline are loaded if their
\* package was imported and the load does not raise
ConstructSectionIdentifier ==
    /\ c_pc = "imported"
    /\ \E model_loads, nlp_loads \in BOOLEAN :
          c_self' = Some([model |-> "sentence_transformers" \in c_installed /\ model_loads,
                          nlp |-> "spacy" \in c_installed /\ nlp_loads])
    /\ c_pc' = "constructed"
    /\ UNCHANGED <<nlp, pvars, vvars, lvars, nvars, mvars, tvars, fvars, gvars,
                   c_installed, c_header, c_semantic, c_out>>

\* self._match_header_to_section(block['text'])
MatchHeader ==
    /\ c_pc = "constructed"
    /\ \E semantic \in {"None"} \cup
                        (IF Val(c_self).model
                         THEN {SECTION_MAPPINGS[i].section : i \in 1..Len(SECTION_MAPPINGS)}
                         ELSE {}) :
          /\ c_semantic' = semantic
          /\ c_out' = Some(match_header_with_model(c_header, semantic))
    /\ c_pc' = "matched"
    /\ UNCHANGED <<nlp, pvars, vvars, lvars, nvars, mvars, tvars, fvars, gvars,
                   c_installed, c_self, c_header>>

NextCapabilities == ImportSectionIdentifier \/ ConstructSectionIdentifier \/ MatchHeader

SpecCapabilities == InitCapabilities /\ [][NextCapabilities]_vars

(***************************************************************************)
(* Two threads constructing a class that caches its model in a class       *)
(* attribute                                                               *)
(***************************************************************************)
Threads == {1, 2}

\* The classes that share a model handle
ModelClasses == {"OptimizedSectionMapper", "IntelligentResumeParser", "SectionDetector"}

InitThreads ==
    /\ nlp = FALSE
    /\ PipelineIdle
    /\ ValidatorIdle
    /\ LayoutIdle
    /\ NameIdle
    /\ MapperIdle
    /\ CapabilitiesIdle
    /\ FunctionsIdle
    /\ ModelCacheIdle
    /\ t_class \in ModelClasses
    /\ t_pc = [t \in Threads |-> IF t_class = "SectionDetector"
                                 THEN "check_model" ELSE "check_loaded"]
    /\ t_model = 0
    /\ t_loaded = FALSE
    /\ t_loads = 0
    /\ t_new = [t \in Threads |-> 0]
    /\ t_handle = [t \in Threads |-> 0]

\* __init__: `if not self._model_loaded and SENTENCE_TRANSFORMERS_AVAILABLE`,
\* `if not IntelligentResumeParser._models_loaded`
CheckLoaded(t) ==
    /\ t_pc[t] = "check_loaded"
    /\ t_pc' = [t_pc EXCEPT ![t] = IF t_loaded THEN "bind" ELSE "check_model"]
    /\ UNCHANGED <<nlp, pvars, vvars, lvars, nvars, mvars, cvars, fvars, gvars,
                   t_class, t_model, t_loaded, t_loads, t_new, t_handle>>

\* _load_model: `if OptimizedSectionMapper._model is not None: return`;
\* _load_models: `if ... IntelligentResumeParser._model is None`;
\* SectionDetector: `if not hasattr(SectionDetector, '_cached_model')`
CheckModel(t) ==
    /\ t_pc[t] = "check_model"
    /\ t_pc' = [t_pc EXCEPT ![t] =
                   IF t_model = 0 THEN "load"
                   ELSE IF t_class = "IntelligentResumeParser" THEN "set_loaded"
                   ELSE "bind"]
    /\ UNCHANGED <<nlp, pvars, vvars, lvars, nvars, mvars, cvars, fvars, gvars,
                   t_class, t_model, t_loaded, t_loads, t_new, t_handle>>

\* SentenceTransformer('all-MiniLM-L6-v2', device='cpu') builds a new model,
\* or raises
LoadModel(t) ==
    /\ t_pc[t] = "load"
    /\ \/ /\ t_loads' = t_loads + 1
          /\ t_new' = [t_new EXCEPT ![t] = t_loads + 1]
          /\ t_pc' = [t_pc EXCEPT ![t] = "assign"]
          /\ t_handle' = t_handle
       \/ /\ UNCHANGED <<t_loads, t_new>>
          /\ t_pc' = [t_pc EXCEPT ![t] =
                         CASE t_class = "OptimizedSectionMapper" -> "assign"
                           [] t_class = "IntelligentResumeParser" -> "set_loaded"
                           [] OTHER -> "done"]
          /\ t_handle' = t_handle
    /\ UNCHANGED <<nlp, pvars, vvars, lvars, nvars, mvars, cvars, fvars, gvars,
                   t_class, t_model, t_loaded>>

\* the assignment of the built model to the class attribute;
\* OptimizedSectionMapper's `except` assigns None
AssignModel(t) ==
    /\ t_pc[t] = "assign"
    /\ t_model' = t_new[t]
    /\ t_pc' = [t_pc EXCEPT ![t] =
                   IF t_class = "SectionDetector" \/ t_new[t] = 0
                   THEN "bind" ELSE "set_loaded"]
    /\ UNCHANGED <<nlp, pvars, vvars, lvars, nvars, mvars, cvars, fvars, gvars,
                   t_class, t_loaded, t_loads, t_new, t_handle>>

\* `OptimizedSectionMapper._model_loaded = True`,
\* `IntelligentResumeParser._models_loaded = True`
SetLoaded(t) ==
    /\ t_pc[t] = "set_loaded"
    /\ t_loaded' = TRUE
    /\ t_pc' = [t_pc EXCEPT ![t] = "bind"]
    /\ UNCHANGED <<nlp, pvars, vvars, lvars, nvars, mvars, cvars, fvars, gvars,
                   t_class, t_model, t_loads, t_new, t_handle>>

\* The thread's use of the model: _precompute_embeddings reads
\* OptimizedSectionMapper._model, the model property reads
\* IntelligentResumeParser._model, `self.ml_model = SectionDetector._cached_model`
BindModel(t) ==
    /\ t_pc[t] = "bind"
    /\ t_handle' = [t_handle EXCEPT ![t] = t_model]
    /\ t_pc' = [t_pc EXCEPT ![t] = "done"]
    /\ UNCHANGED <<nlp, pvars, vvars, lvars, nvars, mvars, cvars, fvars, gvars,
                   t_class, t_model, t_loaded, t_loads, t_new>>

NextThreads ==
    \E t \in Threads :
        \/ CheckLoaded(t)
        \/ CheckModel(t)
        \/ LoadModel(t)
        \/ AssignModel(t)
        \/ SetLoaded(t)
        \/ BindModel(t)

SpecThreads == InitThreads /\ [][NextThreads]_vars

(***************************************************************************)
(* _classify_content_by_analysis applied to texts that mix the indicators  *)
(* of several sections                                                     *)
(***************************************************************************)
MaxClassifyWords == 3

\* Words and phrases of the indicator lists, an organisation and a date
ClassifyVocabulary ==
    {"bachelor", "university", "degree", "school", "student", "company", "promoted",
     "supervised", "python", "sql", "project", "professional", "google", "2020"}

\* The empty text, and texts of one or more words with or without commas
\* between them and full stops after them
ClassifyTexts ==
    {EmptyText} \cup
    { [words |-> ws, comma |-> c, periods |-> n] :
        ws \in {w \in SUBSET ClassifyVocabulary :
                   w # {} /\ Cardinality(w) <= MaxClassifyWords},
        c \in BOOLEAN, n \in {0, 2} }

InitClassify ==
    /\ nlp \in BOOLEAN
    /\ PipelineIdle
    /\ ValidatorIdle
    /\ LayoutIdle /\ NameIdle /\ MapperIdle /\ CapabilitiesIdle /\ ThreadsIdle
    /\ ModelCacheIdle
    /\ f_pc = "in"
    /\ \E content \in ClassifyTexts : f_in = [content |-> content]
    /\ f_out = <<>>

\* classified = self._classify_content_by_analysis(block['text'])
ClassifyContent ==
    /\ f_pc = "in"
    /\ f_out' = Some(classify_content_by_analysis(f_in.content, nlp))
    /\ f_pc' = "out"
    /\ UNCHANGED <<nlp, pvars, vvars, lvars, nvars, mvars, cvars, tvars, gvars, f_in>>

NextClassify == ClassifyContent

SpecClassify == InitClassify /\ [][NextClassify]_vars

(***************************************************************************)
(* _identify_headings applied to the text blocks of a page                 *)
(***************************************************************************)
MaxHeadingBlocks == 3

\* Block heights in pixels: body text, slightly larger, 1.4 times body text
HeadingHeights == {10, 11, 14}

\* A block is one of the candidate texts at average density, or body text
\* set bold
HeadingBlocks ==
    { [text |-> t, height |-> h, boldness |-> 100, is_heading |-> FALSE,
       heading_reasons |-> <<>>] : t \in HeadingCandidates, h \in HeadingHeights }
    \cup
    { [text |-> "Led the migration of billing to cloud", height |-> h, boldness |-> 130,
       is_heading |-> FALSE, heading_reasons |-> <<>>] : h \in HeadingHeights }

InitHeadings ==
    /\ nlp = FALSE
    /\ PipelineIdle
    /\ ValidatorIdle
    /\ LayoutIdle /\ NameIdle /\ MapperIdle /\ CapabilitiesIdle /\ ThreadsIdle
    /\ ModelCacheIdle
    /\ f_pc = "in"
    /\ \E n \in 0..MaxHeadingBlocks :
          \E text_blocks \in [1..n -> HeadingBlocks] :
             f_in = [text_blocks |-> AsList(text_blocks)]
    /\ f_out = <<>>

\* headings = self._identify_headings(text_blocks, pil_img)
IdentifyHeadings ==
    /\ f_pc = "in"
    /\ f_out' = Some(identify_headings(f_in.text_blocks))
    /\ f_pc' = "out"
    /\ UNCHANGED <<nlp, pvars, vvars, lvars, nvars, mvars, cvars, tvars, gvars, f_in>>

NextHeadings == IdentifyHeadings

SpecHeadings == InitHeadings /\ [][NextHeadings]_vars

(***************************************************************************)
(* Calls of ContentValidator.filter_mismatched_content                     *)
(***************************************************************************)
InitFilter ==
    /\ nlp \in BOOLEAN
    /\ PipelineIdle
    /\ ValidatorIdle
    /\ LayoutIdle /\ NameIdle /\ MapperIdle /\ CapabilitiesIdle /\ ThreadsIdle
    /\ ModelCacheIdle
    /\ f_pc = "in"
    /\ \E n \in 0..MaxBlocks :
          \E entries \in [1..n -> InputSections \X InputTexts] :
             f_in = [sections |-> FileBlocks(entries, n)]
    /\ f_out = <<>>

\* validator.filter_mismatched_content(sections)
FilterMismatched ==
    /\ f_pc = "in"
    /\ f_out' = Some(filter_mismatched_content(f_in.sections, nlp))
    /\ f_pc' = "out"
    /\ UNCHANGED <<nlp, pvars, vvars, lvars, nvars, mvars, cvars, tvars, gvars, f_in>>

NextFilter == FilterMismatched

SpecFilter == InitFilter /\ [][NextFilter]_vars

(***************************************************************************)
(* utils/model_cache.py and the classes it caches                          *)
(***************************************************************************)
\* The number of calls a run makes
MaxCalls == 5

\* The class attributes before any model is loaded; available says whether
\* sentence_transformers and spaCy can be imported
FreshAttrs(available) ==
    [available |-> available,
     mapper_model |-> FALSE, mapper_model_loaded |-> FALSE,
     classifier_models_loaded |-> FALSE,
     parser_model |-> FALSE, parser_models_loaded |-> FALSE,
     detector_cached_model |-> FALSE]

\* OptimizedSectionMapper._load_model()
mapper_load_model(attrs) ==
    IF attrs.mapper_model THEN attrs
    ELSE [attrs EXCEPT !.mapper_model = TRUE, !.mapper_model_loaded = TRUE]

\* OptimizedSectionMapper.__init__()
mapper_init(attrs) ==
    IF ~attrs.mapper_model_loaded /\ attrs.available
    THEN mapper_load_model(attrs) ELSE attrs

\* get_optimized_mapper(): the constructor runs only while the module holds
\* no instance
get_optimized_mapper(instance, attrs) ==
    IF ~instance
    THEN [instance |-> TRUE, attrs |-> mapper_init(attrs)]
    ELSE [instance |-> instance, attrs |-> attrs]

\* IntelligentResumeParser.__init__() with _load_models()
parser_init(attrs) ==
    IF ~attrs.parser_models_loaded
    THEN [attrs EXCEPT !.parser_model = @ \/ attrs.available,
                       !.parser_models_loaded = TRUE]
    ELSE attrs

\* SectionDetector.__init__(use_ml=True)
detector_init(attrs) ==
    IF attrs.available /\ ~attrs.detector_cached_model
    THEN [attrs EXCEPT !.detector_cached_model = TRUE]
    ELSE attrs

\* prewarm_models() past its early return; classifier is what the
\* constructor of EnhancedSectionClassifier leaves in _models_loaded
prewarm(instance, attrs, classifier) ==
    LET m == get_optimized_mapper(instance, attrs)
        c == [m.attrs EXCEPT !.classifier_models_loaded = classifier]
    IN  [instance |-> m.instance, attrs |-> detector_init(parser_init(c))]

\* get_model_status()
get_model_status(attrs) ==
    [optimized_mapper |-> attrs.mapper_model_loaded,
     section_classifier |-> attrs.classifier_models_loaded,
     resume_parser |-> attrs.parser_models_loaded,
     section_detector |-> attrs.detector_cached_model]

InitModelCache ==
    /\ nlp = FALSE
    /\ PipelineIdle
    /\ ValidatorIdle
    /\ LayoutIdle /\ NameIdle /\ MapperIdle /\ CapabilitiesIdle /\ ThreadsIdle
    /\ FunctionsIdle
    /\ g_pc = "serving"
    /\ g_prewarmed = FALSE
    /\ g_instance = FALSE
    /\ \E available \in BOOLEAN : g_attrs = FreshAttrs(available)
    /\ g_history = <<>>
    /\ g_status = <<>>

\* prewarm_models()
PrewarmModels ==
    /\ g_pc = "serving"
    /\ Len(g_history) < MaxCalls
    /\ IF g_prewarmed
       THEN UNCHANGED <<g_prewarmed, g_instance, g_attrs>>
       ELSE \E classifier \in {g_attrs.classifier_models_loaded, g_attrs.available} :
               LET r == prewarm(g_instance, g_attrs, classifier)
               IN  /\ g_instance' = r.instance
                   /\ g_attrs' = r.attrs
                   /\ g_prewarmed' = TRUE
    /\ g_history' = Append(g_history, "prewarm_models")
    /\ UNCHANGED <<nlp, pvars, vvars, lvars, nvars, mvars, cvars, tvars, fvars,
                   g_pc, g_status>>

\* clear_model_cache()
ClearModelCache ==
    /\ g_pc = "serving"
    /\ Len(g_history) < MaxCalls
    /\ g_attrs' = FreshAttrs(g_attrs.available)
    /\ g_prewarmed' = FALSE
    /\ g_history' = Append(g_history, "clear_model_cache")
    /\ UNCHANGED <<nlp, pvars, vvars, lvars, nvars, mvars, cvars, tvars, fvars,
                   g_pc, g_instance, g_status>>

\* status = get_model_status()
GetModelStatus ==
    /\ g_pc = "serving"
    /\ Len(g_history) < MaxCalls
    /\ g_status' = Some(get_model_status(g_attrs))
    /\ g_history' = Append(g_history, "get_model_status")
    /\ UNCHANGED <<nlp, pvars, vvars, lvars, nvars, mvars, cvars, tvars, fvars,
                   g_pc, g_prewarmed, g_instance, g_attrs>>

NextModelCache == PrewarmModels \/ ClearModelCache \/ GetModelStatus

SpecModelCache == InitModelCache /\ [][NextModelCache]_vars

(***************************************************************************)
(* Calls of SectionIdentifier.identify_sections                            *)
(***************************************************************************)
MaxIdentifyBlocks == 3

\* What passes 2 and 3 of the OCR read in one block: a heading, matched,
\* unmatched or without text, or a body text
OcrReadings ==
    {[kind |-> "heading", heading |-> h, text |-> EmptyText] : h \in HeadingTexts}
       \cup {[kind |-> "body", heading |-> "", text |-> t] : t \in PageTexts}

\* The OCR results for blocks read from top to bottom
OcrResults(readings) ==
    LET all == AsList([i \in 1..Len(readings) |-> i])
        headings == SelectSeq(all, LAMBDA i : readings[i].kind = "heading")
        bodies == SelectSeq(all, LAMBDA i : readings[i].kind = "body")
    IN  [header_ocr |-> [text |-> ""],
         section_headers_ocr |->
            AsList([j \in 1..Len(headings) |->
                      [text |-> readings[headings[j]].heading,
                       id |-> headings[j], y |-> headings[j]]]),
         body_ocr |->
            AsList([j \in 1..Len(bodies) |->
                      [text |-> readings[bodies[j]].text,
                       id |-> bodies[j], y |-> bodies[j]]])]

InitIdentify ==
    /\ nlp \in BOOLEAN
    /\ PipelineIdle
    /\ ValidatorIdle
    /\ LayoutIdle /\ NameIdle /\ MapperIdle /\ CapabilitiesIdle /\ ThreadsIdle
    /\ ModelCacheIdle
    /\ f_pc = "in"
    /\ \E n \in 0..MaxIdentifyBlocks :
          \E readings \in [1..n -> OcrReadings] :
             f_in = [ocr_results |-> OcrResults(readings)]
    /\ f_out = <<>>

\* identifier.identify_sections(ocr_results)
IdentifyOcrResults ==
    /\ f_pc = "in"
    /\ f_out' = Some(identify_sections(f_in.ocr_results, nlp))
    /\ f_pc' = "out"
    /\ UNCHANGED <<nlp, pvars, vvars, lvars, nvars, mvars, cvars, tvars, gvars, f_in>>

NextIdentify == IdentifyOcrResults

SpecIdentify == InitIdentify /\ [][NextIdentify]_vars

(***************************************************************************)
(* Properties of validate_sections                                         *)
(***************************************************************************)
\* The blocks of a dict of lists, as [section, block] pairs
Filed(d) ==
    UNION { {[section |-> d[i].name, block |-> d[i].blocks[j]] :
                j \in 1..Len(d[i].blocks)} : i \in 1..Len(d) }

\* How many times the block with this id is filed in d
Occurrences(d, id) ==
    Cardinality(UNION { {<<i, j>> : j \in {k \in 1..Len(d[i].blocks) :
                                               d[i].blocks[k].id = id}} :
                        i \in 1..Len(d) })

BlockIds(d) == {f.block.id : f \in Filed(d)}

\* C6: after validate_sections, every block of an output section T validates
\* against T or has a confidence for T of at least the drop threshold 0.3,
\* relocated blocks included.
C6_NoSurvivorBelowDropThreshold ==
    v_pc \in {"once", "twice"} =>
        \A f \in Filed(v_out) :
            LET r == validate_content(f.block.text, f.section, nlp)
            IN  r.is_valid \/ AtLeast(r.confidence, DropPct)

\* A pass that relocated one block into a section with a signature and
\* removed another.
C6_Witness ==
    /\ v_pc = "once"
    /\ Len(v_removed) > 0
    /\ \E i \in 1..Len(v_moved) :
          /\ v_moved[i].to \in DOMAIN CONTENT_SIGNATURES
          /\ Occurrences(v_out, v_moved[i].id) = 1

\* C7: validate_sections applied to its own output returns the same
\* sections: nothing is moved or removed and every section keeps its blocks
\* in the same order.
C7_SecondPassIsFixedPoint ==
    v_pc = "twice" => v_out = v_prev /\ v_moved = <<>> /\ v_removed = <<>>

\* A second pass over an output that holds a relocated block and a flagged one.
C7_Witness ==
    /\ v_pc = "twice"
    /\ \E f \in Filed(v_prev) : f.block.validation_warning.flagged
    /\ \E f \in Filed(v_prev), g \in Filed(v_in) :
          f.block.id = g.block.id /\ f.section # g.section

\* C8: in one pass a block is relocated at most once, a relocated block is
\* filed in the section it was moved to and nowhere else, and no block of
\* the input is filed under two sections (or twice) afterwards.
C8_RelocatedOnceFiledOnce ==
    v_pc = "once" =>
        /\ \A id \in BlockIds(v_in) :
              /\ Occurrences(v_out, id) <= 1
              /\ Cardinality({i \in 1..Len(v_moved) : v_moved[i].id = id}) <= 1
        /\ BlockIds(v_out) \subseteq BlockIds(v_in)
        /\ \A i \in 1..Len(v_moved) :
              \A f \in Filed(v_out) :
                  f.block.id = v_moved[i].id => f.section = v_moved[i].to

\* A pass that relocated a block into a section that has blocks of its own.
C8_Witness ==
    /\ v_pc = "once"
    /\ \E i \in 1..Len(v_moved) :
          \E f \in Filed(v_out) :
              f.section = v_moved[i].to /\ f.block.id # v_moved[i].id

(***************************************************************************)
(* Properties of the orchestrator                                          *)
(***************************************************************************)
\* The call has returned a result that reports a failure
ReturnedFailure ==
    /\ pc = "returned"
    /\ "success" \in DOMAIN Val(result)
    /\ Val(result).success = FALSE

\* C1: whichever stage or loading step raises, under each of the three entry
\* points, the exception does not leave the entry point: the call returns,
\* and what it returns has success = False.
C1_NoExceptionCrossesOrchestrator ==
    /\ pc # "escaped"
    /\ failed # "none" => ReturnedFailure

\* A stage raised under process_pdf_resume, and the call returned
C1_Witness ==
    /\ entry = "pdf"
    /\ failed = "layer4"
    /\ ReturnedFailure

HeaderFields == {"name", "email", "phone", "linkedin", "github", "location", "title"}

\* C2: when process_resume returns from a run in which no stage failed, every
\* field that the header extractor found (name, email, phone, linkedin,
\* github, location, title) is in candidate_info of the result, as the text
\* cleanup leaves it.
C2_CandidateInfoCarriesHeader ==
    [][pc = "layer7" /\ pc' = "returned" /\ failed' = "none"
          => \A f \in HeaderFields :
                Val(header_info)[f] # ""
                   => /\ f \in DOMAIN Val(result').candidate_info
                      /\ Val(result').candidate_info[f] = clean_field(Val(header_info)[f])]_vars

\* C3: every failure result has success = False, a sections map that is
\* there and empty, a warnings list that is not empty, and the
\* recommendation of manual data entry.
C3_FailureResultShape ==
    ReturnedFailure
       => /\ "sections" \in DOMAIN Val(result)
          /\ Val(result).sections = <<>>
          /\ Val(result).warnings # <<>>
          /\ "Please try manual data entry" \in Range(Val(result).recommendations)

\* The local a stage assigns
StageOutput(stage) ==
    CASE stage = "layer1" -> layout_info
      [] stage = "layer2" -> ocr_results
      [] stage = "layer3" -> identified_sections
      [] stage = "layer4" -> validated_sections
      [] stage = "layer5" -> header_info
      [] stage = "layer6" -> mapped_data

\* C4: the stages start in the order layout analysis, OCR, identification,
\* validation, header extraction, mapping, post-processing; a stage starts
\* only when every stage before it has returned its output, and none starts
\* once a stage has failed.
C4_StagesRunInOrder ==
    [][ran' # ran
          => /\ failed = "none"
             /\ Len(ran) < Len(StageOrder)
             /\ ran' = Append(ran, StageOrder[Len(ran) + 1])
             /\ \A i \in 1..Len(ran) : StageOutput(ran[i]) # <<>>]_vars

\* All seven stages ran and the call returned
C4_Witness ==
    /\ pc = "returned"
    /\ failed = "none"
    /\ ran = StageOrder

\* C5: every result a call returns has quality_scores.overall, and it lies in
\* [0, 1].
C5_OverallInUnitInterval ==
    pc = "returned"
       => /\ "quality_scores" \in DOMAIN Val(result)
          /\ Val(result).quality_scores.overall \in 0..ScoreUnit

\* C9: once the sections are identified and validated, the blocks of each
\* section are in page order: their y never decreases.
C9_SectionsInPageOrder ==
    validated_sections # <<>>
       => \A e \in Range(Val(validated_sections)) :
             \A i, j \in 1..Len(e.blocks) : i < j => e.blocks[i].y <= e.blocks[j].y

\* C10: once the validator stage of the pipeline has run, no two blocks filed
\* under different sections have the same first 100 characters.
C10_NoCrossSectionRepeats ==
    validated_sections # <<>>
       => \A e1, e2 \in Range(Val(validated_sections)) :
             e1.name # e2.name
                => \A b1 \in Range(e1.blocks), b2 \in Range(e2.blocks) :
                      TextKey(b1.text) # TextKey(b2.text)

(***************************************************************************)
(* Properties of the layout analysis                                       *)
(***************************************************************************)
\* The block stands wholly to the left of the divider
WhollyLeft(block, divider) == block.x + block.width <= divider

\* The block stands wholly to the right of the divider
WhollyRight(block, divider) == block.x >= divider

\* C11: in a two-column layout the reading order lists every block left of
\* the divider before every block right of it, each column from top to
\* bottom, and every block index is in the reading order exactly once.
C11_LeftColumnReadFirst ==
    l_layout # <<>> =>
        LET lay == Val(l_layout)
            tb == lay.text_blocks
            ro == lay.reading_order
            d == lay.columns.divider
        IN  /\ Len(ro) = Len(tb)
            /\ \A i \in 1..Len(tb) : Cardinality({p \in 1..Len(ro) : ro[p] = i}) = 1
            /\ lay.columns.count = 2 =>
                  /\ \A i \in 1..Len(tb) : WhollyLeft(tb[i], d) \/ WhollyRight(tb[i], d)
                  /\ \A p, q \in 1..Len(ro) :
                        p < q =>
                          /\ ~(WhollyRight(tb[ro[p]], d) /\ WhollyLeft(tb[ro[q]], d))
                          /\ (WhollyLeft(tb[ro[p]], d) <=> WhollyLeft(tb[ro[q]], d))
                                => tb[ro[p]].y <= tb[ro[q]].y

\* Two columns, three blocks: a right-column block stands higher than a
\* left-column block, and one column holds two blocks at different heights
C11_Witness ==
    /\ l_layout # <<>>
    /\ LET lay == Val(l_layout)
           tb == lay.text_blocks
           d == lay.columns.divider
       IN  /\ lay.columns.count = 2
           /\ \E i, j, k \in 1..Len(tb) :
                 /\ WhollyLeft(tb[i], d) /\ WhollyRight(tb[j], d)
                 /\ tb[j].y < tb[i].y
                 /\ k # i /\ WhollyLeft(tb[k], d) /\ tb[k].y < tb[i].y /\ k > i

\* The blocks identify_sections goes through, put in the order of the
\* layout's reading order
InReadingOrder(all_blocks, reading_order) ==
    LET kept == SelectSeq(reading_order,
                          LAMBDA i : \E k \in 1..Len(all_blocks) : all_blocks[k].id = i)
    IN  AsList([p \in 1..Len(kept) |->
                  all_blocks[CHOOSE k \in 1..Len(all_blocks) : all_blocks[k].id = kept[p]]])

\* C20: in a two-column layout identify_sections processes the headings and
\* body blocks in the layout's reading order, every left-column block before
\* any right-column block, so the sections it returns are those of a pass
\* over the blocks in reading order: a body block joins the section opened
\* by the nearest preceding heading of its own column, never one opened by a
\* heading of the other column.
C20_ProcessedInReadingOrder ==
    (l_sections # <<>> /\ Val(l_layout).columns.count = 2) =>
        LET all_blocks == all_blocks_by_position(Val(l_ocr))
            ordered == InReadingOrder(all_blocks, Val(l_layout).reading_order)
        IN  Val(l_sections) = IdentifyBlocks(ordered, nlp)

(***************************************************************************)
(* Properties of _extract_name                                             *)
(***************************************************************************)
\* The techniques of the fallback chain that succeed on a header, numbered
\* in the order largest header block, PERSON entity, name-shaped line,
\* e-mail local part, first non-empty line
Succeeding(h, hasNlp) ==
    LET lines == SelectSeq(h.header_text, LAMBDA line : line # "")
        largest == SortByHeight(h.header_blocks)
    IN  {t \in 1..5 :
           \/ t = 1 /\ \E i \in 1..Len(largest) :
                          /\ i <= TopBlocks
                          /\ ~is_contact_info(largest[i].text)
                          /\ HeaderWordCount(largest[i].text) <= 5
           \/ t = 2 /\ hasNlp /\ h.persons # <<>>
                    /\ HeaderWordCount(h.persons[1]) \in 2..4
           \/ t = 3 /\ \E i \in 1..Len(lines) :
                          ~is_contact_info(lines[i]) /\ looks_like_name(lines[i])
           \/ t = 4 /\ \E i \in 1..Len(lines) : lines[i] = EmailLine
           \/ t = 5 /\ lines # <<>>}

\* The confidence the chain notes for each technique, in percent
ChainConfidence == <<90, 85, 70, 50, 30>>

\* C12: _extract_name returns the result of the first technique that
\* succeeds, with confidence 0.9, 0.85, 0.7, 0.5, 0.3 by technique and 0.0
\* with an empty name when none does, as on an empty header; the confidence
\* never increases along the chain, and a header on which the PERSON entity
\* is the match scores no lower than the same header does through the
\* techniques after it when spaCy is absent.
C12_FirstTechniqueWins ==
    n_out # <<>> =>
        LET ok == Succeeding(n_in, nlp)
            first == CHOOSE t \in ok : \A u \in ok : t <= u
            without == extract_name(n_in.header_text, n_in.header_blocks, n_in.persons, FALSE)
        IN  /\ ok = {} => Val(n_out) = [name |-> "", confidence |-> 0]
            /\ ok # {} =>
                  /\ Val(n_out).confidence = ChainConfidence[first]
                  /\ \A u \in ok : Val(n_out).confidence >= ChainConfidence[u]
                  /\ first = 1 => \E i \in 1..Len(n_in.header_blocks) :
                                     Val(n_out).name = clean_name(n_in.header_blocks[i].text)
                  /\ first = 2 => Val(n_out).name = clean_name(n_in.persons[1])
                  /\ first = 3 => Val(n_out).name = NameLine
                  /\ first = 4 => Val(n_out).name = "J Doe"
                  /\ first = 5 => Val(n_out).name = "Resume Of John Doe"
            /\ (n_in.header_text = <<>> /\ n_in.header_blocks = <<>>)
                  => Val(n_out) = [name |-> "", confidence |-> 0]
            /\ Val(n_out).confidence >= without.confidence

\* No header block gives a name, spaCy finds "John Doe" in a line that is
\* not name-shaped, and the header also holds an e-mail address
C12_Witness ==
    /\ n_out # <<>>
    /\ nlp
    /\ Succeeding(n_in, nlp) = {2, 4, 5}
    /\ n_in.header_blocks # <<>>
    /\ Val(n_out) = [name |-> "John Doe", confidence |-> 85]
    /\ extract_name(n_in.header_text, n_in.header_blocks, n_in.persons, FALSE).confidence = 50

(***************************************************************************)
(* Properties of map_to_template                                           *)
(***************************************************************************)
\* The string that joins the blocks of a section of this type, given whether
\* a block already holds a list separator
JoinPolicy(section_name, listShaped) ==
    CASE section_name \in {"EMPLOYMENT", "EDUCATION", "PROJECTS"} -> "\n\n"
      [] section_name = "SUMMARY" -> " "
      [] section_name = "SKILLS" -> IF listShaped THEN " " ELSE ", "
      [] OTHER -> "\n"

\* C13: map_to_template emits a key exactly for the input sections with at
\* least one block of non-blank text; the text under it is made of the
\* non-blank block texts of that section, in their order, and of nothing
\* else, joined by a blank line for EMPLOYMENT, EDUCATION and PROJECTS, by a
\* space for SUMMARY, by a comma for SKILLS unless the combined text is
\* already list-shaped, and by a newline for every other type.
C13_JoinByType ==
    m_out # <<>> =>
        LET ins == m_in.sections
            outs == Val(m_out).sections
            filled == {i \in 1..Len(ins) :
                         \E k \in 1..Len(ins[i].blocks) : ~IsBlank(ins[i].blocks[k].text)}
        IN  /\ {outs[j].name : j \in 1..Len(outs)} = {ins[i].name : i \in filled}
            /\ Len(outs) = Cardinality(filled)
            /\ \A j \in 1..Len(outs) :
                  \E i \in filled :
                     LET kept == SelectSeq(ins[i].blocks, LAMBDA b : ~IsBlank(b.text))
                         texts == outs[j].content.texts
                     IN  /\ ins[i].name = outs[j].name
                         /\ Len(texts) = Len(kept)
                         /\ \A k \in 1..Len(kept) : texts[k] = kept[k].text
                         /\ outs[j].content.sep =
                               JoinPolicy(outs[j].name, \E k \in 1..Len(kept) : kept[k].text.comma)

\* SKILLS with two words is joined by a comma, beside a section that has a
\* key but only a blank block and is omitted
C13_Witness ==
    /\ m_out # <<>>
    /\ \E i \in 1..Len(m_in.sections) :
          /\ m_in.sections[i].name = "SUMMARY"
          /\ Len(m_in.sections[i].blocks) = 1
          /\ IsBlank(m_in.sections[i].blocks[1].text)
    /\ Val(m_out).sections =
          <<[name |-> "SKILLS",
             content |-> [texts |-> <<Words({"python"}), Words({"python"})>>,
                          sep |-> ", ", capitalised |-> FALSE]]>>

(***************************************************************************)
(* Properties of the post-processor                                        *)
(***************************************************************************)
\* The call ran all seven stages and returned their result
ReturnedProcessed ==
    /\ pc = "returned"
    /\ failed = "none"
    /\ ran = StageOrder

\* C14: whenever two sections of the output are identical in their first 50
\* characters, whatever their lengths, the warnings of the result hold the
\* potential-duplicate warning.
C14_SharedOpeningWarned ==
    ReturnedProcessed =>
        LET secs == Val(result).sections
        IN  (\E i, j \in 1..Len(secs) :
                /\ i < j
                /\ FirstChars(secs[i].content, OverlapChars)
                      = FirstChars(secs[j].content, OverlapChars))
            => \E k \in 1..Len(Val(result).warnings) :
                  Val(result).warnings[k] = "Potential duplicate content detected across sections"

\* The recommendations that name a field, for the fields whose score is low
LowFieldRecommendations(quality_scores) ==
    {r \in {"Please verify the candidate name manually",
            "Please add email or phone number manually",
            "Please review and complete employment history",
            "Please review and complete education details"} :
        \/ r = "Please verify the candidate name manually" /\ quality_scores.name < 6000
        \/ r = "Please add email or phone number manually" /\ quality_scores.contact < 5000
        \/ r = "Please review and complete employment history"
              /\ quality_scores.employment < 5000
        \/ r = "Please review and complete education details"
              /\ quality_scores.education < 5000}

\* C15: on a run that succeeds with a low overall score, every
\* recommendation of the result names a field whose score is low; no
\* recommendation is generic.
C15_RecommendationsNameFields ==
    (ReturnedProcessed /\ Val(result).quality_scores.overall < 6000) =>
        \A k \in 1..Len(Val(result).recommendations) :
            Val(result).recommendations[k]
               \in LowFieldRecommendations(Val(result).quality_scores)

\* The canonical section types
SectionTypes ==
    {"EMPLOYMENT", "EDUCATION", "SKILLS", "SUMMARY", "PROJECTS", "CERTIFICATIONS",
     "ACHIEVEMENTS", "LANGUAGES"}

\* C16: in every result a call returns, under each of the three entry
\* points and on the DOCX text-only fallback, each key of sections is one of
\* the canonical section types.
C16_SectionKeysCanonical ==
    (pc = "returned" /\ "sections" \in DOMAIN Val(result)) =>
        \A k \in 1..Len(Val(result).sections) :
            Val(result).sections[k].name \in SectionTypes

(***************************************************************************)
(* Properties of the optional capabilities                                 *)
(***************************************************************************)
\* C17: with any one of the optional packages missing (named-entity
\* recognition, sentence embeddings, fuzzy string matching) nothing raises:
\* the section identifier is imported and constructed and its calls return.
C17_OneCapabilityMissingNeverRaises ==
    Cardinality(OptionalPackages \ c_installed) <= 1 => c_pc # "raised"

(***************************************************************************)
(* Properties of the shared model handle                                   *)
(***************************************************************************)
\* C18: under every interleaving of two threads constructing the class for
\* the first time, the model is built at most once, and once both threads
\* have finished they use the same handle.
C18_ModelLoadedOnce ==
    /\ t_loads <= 1
    /\ (t_class # "" /\ \A t \in Threads : t_pc[t] = "done")
           => \A t, u \in Threads : t_handle[t] = t_handle[u]

(***************************************************************************)
(* Properties of the decision validate_sections takes for one block        *)
(***************************************************************************)
\* C19: a block whose confidence c for the section it is filed under lies in
\* 0.4 <= c < 0.5 stays in that section with a warning: validate_sections
\* neither relocates nor removes it.
C19_WarningBandStaysPut ==
    v_pc = "once" =>
        \A f \in Filed(v_in) :
            LET r == validate_content(f.block.text, f.section, nlp)
            IN  (~IsBlank(f.block.text) /\ AtLeast(r.confidence, ValidPct)
                                        /\ Below(r.confidence, KeepPct))
                => /\ \E g \in Filed(v_out) :
                         /\ g.block.id = f.block.id
                         /\ g.section = f.section
                         /\ g.block.validation_warning.flagged
                   /\ \A i \in 1..Len(v_moved) : v_moved[i].id # f.block.id

(***************************************************************************)
(* Properties of _match_header_to_section                                  *)
(***************************************************************************)
\* What each technique finds for the matched heading, in the order exact
\* synonym, fuzzy above 80, embedding above 0.65, keyword rule
TechniqueResults ==
    LET header_clean == HeaderClean(c_header)
        fuzzy == FuzzyBest(header_clean)
    IN  << ExactMatch(header_clean),
           IF fuzzy.best_score > 80 THEN fuzzy.best_match ELSE "None",
           c_semantic,
           KeywordRule(header_clean) >>

\* C21: _match_header_to_section returns what the first succeeding technique
\* found (exact synonym, fuzzy score above 80, embedding similarity above
\* 0.65, keyword rule), returns no match only when all four fail, and
\* resolves EDUC4TION to EDUCATION by the fuzzy technique.
C21_FirstSucceedingTechnique ==
    (c_pc = "matched" /\ HeaderClean(c_header) # "") =>
        LET hits == {i \in 1..4 : TechniqueResults[i] # "None"}
        IN  /\ Val(c_out) = IF hits = {} THEN "None"
                            ELSE TechniqueResults[CHOOSE i \in hits : \A j \in hits : i <= j]
            /\ c_header = "EDUC4TION" =>
                   /\ TechniqueResults[1] = "None"
                   /\ Val(c_out) = "EDUCATION"

\* EDUC4TION matched with a model loaded whose embeddings point to another
\* section: the fuzzy result stands.
C21_Witness ==
    /\ c_pc = "matched"
    /\ c_header = "EDUC4TION"
    /\ c_semantic = "SKILLS"
    /\ Val(c_out) = "EDUCATION"

(***************************************************************************)
(* Properties of _classify_content_by_analysis                             *)
(***************************************************************************)
\* The education indicator score of a text: 5 for each strong education
\* pattern it matches and 2 for each education keyword it contains
EducationIndicatorScore(text) ==
    5 * Cardinality({i \in 1..Len(strong_education_patterns) :
                        text.words \cap strong_education_patterns[i] # {}})
      + 2 * Cardinality(text.words \cap education_keywords)

\* C22: a text whose education indicator score is at least 5 is classified
\* EDUCATION, whatever employment, skills, summary or project indicators it
\* holds besides.
C22_EducationShortCircuits ==
    (f_pc = "out" /\ EducationIndicatorScore(f_in.content) >= 5)
        => Val(f_out) = "EDUCATION"

\* A list naming a university and two technologies, whose skills score (9)
\* exceeds its education score (5), classified EDUCATION.
C22_Witness ==
    /\ f_pc = "out"
    /\ f_in.content = [words |-> {"university", "python", "sql"}, comma |-> TRUE,
                       periods |-> 0]
    /\ Val(f_out) = "EDUCATION"

(***************************************************************************)
(* Properties of _identify_headings                                        *)
(***************************************************************************)
\* The tags of the five signals as the specification states them, for block
\* i of the blocks handed to _identify_headings
StatedSignals(i) ==
    LET blocks == f_in.text_blocks
        block == blocks[i]
        twice_median == TwiceMedian(AsList([j \in 1..Len(blocks) |-> blocks[j].height]))
    IN  (IF 20 * block.height >= 13 * twice_median THEN <<"size">> ELSE <<>>)
        \o (IF TextIsUpper(block.text) /\ TextWordCount(block.text) <= 5
            THEN <<"all_caps">> ELSE <<>>)
        \o (IF block.boldness >= 120 THEN <<"bold">> ELSE <<>>)
        \o (IF TextWordCount(block.text) <= 4 /\ 2 * block.height > twice_median
            THEN <<"short">> ELSE <<>>)
        \o (IF HasSectionKeyword(block.text) THEN <<"keyword">> ELSE <<>>)

\* C23: a block is flagged is_heading exactly when one of the five signals
\* fires (height at least 1.3 times the median, all caps with at most 5
\* words, boldness at least 1.2, at most 4 words with above-median height,
\* a section keyword in the text), and heading_reasons lists the tags of
\* the signals that fired.
C23_HeadingIffAnySignal ==
    f_pc = "out" =>
        \A i \in 1..Len(Val(f_out)) :
            /\ Val(f_out)[i].is_heading <=> StatedSignals(i) # <<>>
            /\ Val(f_out)[i].heading_reasons = StatedSignals(i)

(***************************************************************************)
(* Properties of _detect_columns                                           *)
(***************************************************************************)
\* C24: whenever the layout analysis reports two columns, at least one text
\* block stands on each side of the divider: a page margin alone never
\* yields two columns.
C24_TwoColumnsHaveBlocksOnBothSides ==
    (l_layout # <<>> /\ Val(l_layout).columns.count = 2) =>
        LET tb == Val(l_layout).text_blocks
            d == Val(l_layout).columns.divider
        IN  /\ \E i \in 1..Len(tb) : WhollyLeft(tb[i], d)
            /\ \E i \in 1..Len(tb) : WhollyRight(tb[i], d)

(***************************************************************************)
(* Properties of filter_mismatched_content                                 *)
(***************************************************************************)
\* C25: filter_mismatched_content loses only blocks that match no section:
\* a block that is valid for its section, has a confidence of at least 0.3
\* for it, or has a best-matching section to be relocated to is present in
\* the returned sections.
C25_OnlyUnmatchedBlocksRemoved ==
    f_pc = "out" /\ "sections" \in DOMAIN f_in =>
        \A f \in Filed(f_in.sections) :
            LET r == validate_content(f.block.text, f.section, nlp)
            IN  (r.is_valid \/ AtLeast(r.confidence, 30)
                    \/ find_correct_section(f.block.text, nlp) # "None")
                => \E g \in Filed(Val(f_out)) : g.block.id = f.block.id


\* C26: identify_sections files each OCR block at most once: no heading or
\* body block appears twice in the returned sections, neither under two
\* types nor twice under the same type, whatever the sequence of matched,
\* unmatched and empty-text headings interleaved with body blocks.
C26_EachBlockFiledAtMostOnce ==
    (f_pc = "out" /\ "ocr_results" \in DOMAIN f_in) =>
        \A id \in BlockIds(Val(f_out)) : Occurrences(Val(f_out), id) <= 1


(***************************************************************************)
(* Properties of SECTION_MAPPINGS                                          *)
(***************************************************************************)
\* The section types whose synonym list holds this text
Owners(synonym) ==
    {SECTION_MAPPINGS[i].section :
        i \in {j \in 1..Len(SECTION_MAPPINGS) : synonym \in SECTION_MAPPINGS[j].synonyms}}

\* The synonyms of a section type
SynonymsOf(section) ==
    UNION {SECTION_MAPPINGS[i].synonyms :
              i \in {j \in 1..Len(SECTION_MAPPINGS) : SECTION_MAPPINGS[j].section = section}}

\* C27: each heading synonym is owned by exactly one SectionType, so the type
\* an exact case-insensitive match gives does not depend on the order in
\* which the types are tried; a heading equal to a SUMMARY synonym is never
\* classified as another type.
C27_SynonymHasOneOwner ==
    (c_pc = "matched" /\ Owners(HeaderClean(c_header)) # {}) =>
        /\ Owners(HeaderClean(c_header)) = {Val(c_out)}
        /\ HeaderClean(c_header) \in SynonymsOf("SUMMARY") => Val(c_out) = "SUMMARY"


(***************************************************************************)
(* Properties of the evidence behind a relocation                          *)
(***************************************************************************)
\* The text matches a required pattern or a positive keyword of the section
PositiveEvidence(text, section_type) ==
    LET r == validate_content(text, section_type, nlp)
    IN  r.reason.pattern \/ r.reason.positive > 0

\* C28: validate_sections relocates a block to a section type T only when
\* the block shows positive evidence for T: a text that matches none of T's
\* required patterns and none of T's positive keywords stays below the 0.5
\* relocation score for T and is never moved into T.
C28_RelocationNeedsPositiveEvidence ==
    v_pc = "once" =>
        \A f \in Filed(v_in) :
            /\ \A T \in DOMAIN CONTENT_SIGNATURES :
                  ~PositiveEvidence(f.block.text, T)
                     => Below(validate_content(f.block.text, T, nlp).confidence,
                              RelocatePct)
            /\ \A i \in 1..Len(v_moved) :
                  v_moved[i].id = f.block.id
                     => PositiveEvidence(f.block.text, v_moved[i].to)


(***************************************************************************)
(* Properties of the block separators in the final result                  *)
(***************************************************************************)
\* C29: post-processing keeps the block separators the template mapper
\* chose: in the final result the blocks of EMPLOYMENT, EDUCATION and
\* PROJECTS are still separated by a blank line.
C29_BlankLineSeparatorsKept ==
    (pc = "returned" /\ "sections" \in DOMAIN Val(result)) =>
        \A k \in 1..Len(Val(result).sections) :
            LET section == Val(result).sections[k]
            IN  (section.name \in {"EMPLOYMENT", "EDUCATION", "PROJECTS"}
                    /\ Len(section.content.texts) > 1)
                => section.content.sep = "\n\n"


(***************************************************************************)
(* Properties of the model cache                                           *)
(***************************************************************************)
\* A prewarm_models call has returned and no clear_model_cache came after it
PrewarmStands ==
    \E i \in 1..Len(g_history) :
        /\ g_history[i] = "prewarm_models"
        /\ \A j \in (i + 1)..Len(g_history) : g_history[j] # "clear_model_cache"

\* C30: after any sequence of prewarm_models and clear_model_cache calls,
\* once a prewarm_models call has returned with the ML libraries available,
\* OptimizedSectionMapper._model_loaded is true and get_model_status reports
\* optimized_mapper as loaded.
C30_PrewarmLoadsSectionMapper ==
    (g_pc = "serving" /\ g_attrs.available /\ PrewarmStands) =>
        /\ g_attrs.mapper_model_loaded
        /\ g_history[Len(g_history)] = "get_model_status"
              => Val(g_status).optimized_mapper

====
